---- MODULE Spec2Model ----
(***************************************************************************)
(* The asynchronous task execution core of piapi-mcp-server                *)
(* (src/src/index.ts, handleTask / createTask / getTaskResult).            *)
(*                                                                         *)
(* One tool invocation is modelled.  The handler is an async function, so  *)
(* it runs in segments separated by its awaits: the POST that creates the  *)
(* task, each GET that checks its status, and each setTimeout sleep.  Each *)
(* action below is one such segment.  `calls` is the log of what the       *)
(* invocation did to the outside world, in program order: requests sent,   *)
(* responses received, progress reports handed to reportProgress, timers   *)
(* armed.                                                                  *)
(***************************************************************************)
EXTENDS Integers, Sequences, FiniteSets, TLC

VARIABLES
    pc,           \* where the invocation is suspended
    maxAttempts,  \* config.maxAttempts
    timeout,      \* config.timeout, in seconds
    taskId,       \* createData.data.task_id
    attempt,      \* loop counter of getTaskResult
    statusData,   \* body of the status response of the current iteration
    calls,        \* log of external calls and responses
    outcome,      \* what handleTask returned or threw
    createData,   \* body of the task creation response, while createTask runs
    reports,      \* attempts whose reportProgress promise has not settled
    tool,         \* the tool that was invoked
    args,         \* the arguments of the invocation
    job,          \* the request body and the configuration given to handleTask
    rawOutput,    \* the output handed to a normalizer
    result,       \* what the tool's execute returned or threw
    peer          \* the locals of a second invocation in flight, while it is suspended

toolVars == <<tool, args, job, rawOutput, result>>

vars == <<pc, maxAttempts, timeout, taskId, attempt, statusData, calls, outcome,
          createData, reports, tool, args, job, rawOutput, result, peer>>

----------------------------------------------------------------------------
(* Bounds of the model *)

MaxAttemptsBound == 3

\* a tool invocation polls at most this many times: the maxAttempts of the
\* configuration tables (30 and 60) are cut down to it
ToolAttemptsBound == 2

----------------------------------------------------------------------------
(* JavaScript values *)

JUndefined == [t |-> "undefined"]
JNull == [t |-> "null"]
JStr(s) == [t |-> "string", s |-> s]
JNum(n) == [t |-> "number", n |-> n]
JBool(b) == [t |-> "boolean", b |-> b]
JNaN == [t |-> "nan"]

\* ToBoolean of a JavaScript value, as applied by !x and x || y
Truthy(v) ==
    CASE v.t = "undefined" -> FALSE
      [] v.t = "null" -> FALSE
      [] v.t = "string" -> v.s # ""
      [] v.t = "number" -> v.n # 0
      [] v.t = "boolean" -> v.b
      [] v.t = "nan" -> FALSE
      [] OTHER -> TRUE

\* x || y
JsOr(x, y) == IF Truthy(x) THEN x ELSE y

\* a number written as the fraction num / den, den > 0
Rat(num, den) == [num |-> num, den |-> den]
RatEq(p, q) == p.num * q.den = q.num * p.den
RatLe(p, q) == p.num * q.den <= q.num * p.den
RatLt(p, q) == p.num * q.den < q.num * p.den

----------------------------------------------------------------------------
(* Inputs: job configurations and provider responses *)

Timeouts == {60, 900}
TaskIds == {"t1", "t2"}
Messages == {JStr("provider message"), JUndefined}

StatusLabels == {JStr("completed"), JStr("failed"), JStr("pending"), JUndefined}
Outputs == {JNull, JUndefined, [t |-> "object", id |-> "out_a"], [t |-> "object", id |-> "out_b"]}
Errors == {JUndefined,
           [t |-> "object", message |-> JUndefined],
           [t |-> "object", message |-> JStr("boom")]}
Consumes == {JStr("5"), JNum(0)}
Metas == {JUndefined,
          [t |-> "object", usage |-> JUndefined],
          [t |-> "object", usage |-> [t |-> "object", consume |-> JUndefined]]}
         \cup {[t |-> "object", usage |-> [t |-> "object", consume |-> c]] : c \in Consumes}

\* POST /task response bodies
CreateResponses ==
    {[code |-> c, message |-> m, data |-> [task_id |-> id]] :
        c \in {200, 201, 500}, m \in Messages, id \in TaskIds}

\* GET /task/{task_id} response bodies
StatusResponses ==
    {[code |-> c, message |-> m,
      data |-> [status |-> s, output |-> o, error |-> e, meta |-> mt]] :
        c \in {200, 500}, m \in Messages, s \in StatusLabels,
        o \in Outputs, e \in Errors, mt \in Metas}

NoResponse == [code |-> 0]
NoTask == "none"
NoOutcome == [kind |-> "none"]
NoTool == "none"
NoArgs == [t |-> "none"]
NoJob == [t |-> "none"]
NoPeer == [pc |-> "none"]

----------------------------------------------------------------------------
(* Pieces of getTaskResult *)

\* new UserError(`TaskId: ${taskId}, <text>: <detail>`)
UserError(id, text, detail) ==
    [kind |-> "throw", type |-> "UserError", taskId |-> id, text |-> text, detail |-> detail]

\* off-by-one variant: the loop runs once more
LoopCond_Inclusive(a, n) == a <= n

\* for (...; attempt < maxAttempts; ...)
LoopCond(a, n) == a < n

\* variant: the progress of the attempt counted from 1
ProgressOf_FromOne(a, n) == [op |-> "progress", progress |-> Rat((a + 1) * 100, n), total |-> 100]

\* progress: (attempt / maxAttempts) * 100, total: 100
ProgressOf(a, n) == [op |-> "progress", progress |-> Rat(a * 100, n), total |-> 100]

\* variant: the budget is divided over the gaps between the attempts
SleepOf_BetweenAttempts(t, n) == [op |-> "sleep", ms |-> Rat(t * 1000, n - 1)]

\* setTimeout(resolve, (timeout * 1000) / maxAttempts)
SleepOf(t, n) == [op |-> "sleep", ms |-> Rat(t * 1000, n)]

\* variant: the code is looked at only when the response carries no status label
StatusCheckFailed_OnlyWithoutLabel(sd) == sd.code # 200 /\ sd.data.status = JUndefined

\* variant: any 2xx code counts as a successful submission
SubmissionFailed_Not2xx(resp) == resp.code < 200 \/ resp.code >= 300

\* createData.code !== 200
SubmissionFailed(resp) == resp.code # 200

\* statusData.code !== 200
StatusCheckFailed(sd) == sd.code # 200

\* variant: a missing label counts as completion
IsCompleted_OrMissing(status) == status = JStr("completed") \/ status = JUndefined

\* status === "completed"
IsCompleted(status) == status = JStr("completed")

\* variant: the failed label is not recognised
IsFailed_Never(status) == FALSE

\* variant: a missing label counts as a failure
IsFailed_OrMissing(status) == status = JStr("failed") \/ status = JUndefined

\* status === "failed"
IsFailed(status) == status = JStr("failed")

\* variant: the output is not checked
NoOutput_Never(output) == FALSE

\* !output
NoOutput(output) == ~Truthy(output)

\* statusData.data.meta?.usage?.consume
ConsumeOf(sd) ==
    IF sd.data.meta.t # "object" THEN JUndefined
    ELSE IF sd.data.meta.usage.t # "object" THEN JUndefined
    ELSE sd.data.meta.usage.consume

\* const usage = statusData.data.meta?.usage?.consume || "unknown"
UsageOf(sd) == JsOr(ConsumeOf(sd), JStr("unknown"))

\* variant: the message is read without the default
ErrorMessageOf_NoDefault(error) ==
    IF error.t # "object" THEN JUndefined ELSE error.message

\* error?.message || "Unknown error"
ErrorMessageOf(error) ==
    JsOr(IF error.t # "object" THEN JUndefined ELSE error.message, JStr("Unknown error"))

\* variant: the message reports the timeout in milliseconds
TimeoutError_Millis(id, t) == UserError(id, "Generation timed out after seconds", JNum(t * 1000))

\* throw new UserError(`TaskId: ${taskId}, Generation timed out after ${timeout} seconds`)
TimeoutError(id, t) == UserError(id, "Generation timed out after seconds", JNum(t))

\* return { taskId, usage, output }
TaskResult(id, sd) ==
    [kind |-> "return", taskId |-> id, usage |-> UsageOf(sd), output |-> sd.data.output]

\* variant: past the last attempt the handler waits for a promise that is
\* never settled
LoopIteration_Waiting(id, a, log) ==
    /\ attempt' = a
    /\ statusData' = NoResponse
    /\ IF LoopCond(a, maxAttempts)
       THEN /\ calls' = log \o <<ProgressOf(a, maxAttempts), [op |-> "get", taskId |-> id]>>
            /\ reports' = reports \cup {a}
            /\ pc' = "checking"
            /\ outcome' = outcome
       ELSE /\ calls' = log
            /\ reports' = reports
            /\ pc' = "waiting"
            /\ outcome' = outcome

\* The head of one loop iteration with counter value a: either the loop
\* condition holds, the progress is reported and the status request is sent,
\* or the loop is left and the timeout error is thrown.
\* log is the log up to the loop head.  reportProgress is called without
\* await: its promise stays pending while the handler goes on.
LoopIteration(id, a, log) ==
    /\ attempt' = a
    /\ statusData' = NoResponse
    /\ IF LoopCond(a, maxAttempts)
       THEN /\ calls' = log \o <<ProgressOf(a, maxAttempts), [op |-> "get", taskId |-> id]>>
            /\ reports' = reports \cup {a}
            /\ pc' = "checking"
            /\ outcome' = outcome
       ELSE /\ calls' = log
            /\ reports' = reports
            /\ pc' = "done"
            /\ outcome' = TimeoutError(id, timeout)

----------------------------------------------------------------------------
(* Result parsers (zod schemas and parse*Output) *)

JArr(items) == [t |-> "array", items |-> items]
EmptyObject == [t |-> "object"]

\* output.k, undefined when the property is absent
Field(o, k) == IF k \in DOMAIN o THEN o[k] ELSE JUndefined

\* z.object(...) accepts plain objects only
IsObject(v) == v.t = "object"
\* z.string()
IsString(v) == v.t = "string"
\* z.number()
IsNumber(v) == v.t = "number"
\* z.string().optional()
IsOptionalString(v) == v = JUndefined \/ IsString(v)
IsArray(v) == v.t = "array"
\* z.array(z.string())
IsStringArray(v) == IsArray(v) /\ \A i \in 1..Len(v.items) : IsString(v.items[i])
\* z.array(z.string()).nullable().optional()
IsNullableOptionalStringArray(v) == v = JUndefined \/ v = JNull \/ IsStringArray(v)
\* x && x.length > 0
NonEmptyArray(v) == Truthy(v) /\ IsArray(v) /\ Len(v.items) > 0

\* [...].filter(Boolean)
RECURSIVE FilterBoolean(_)
FilterBoolean(items) ==
    IF items = << >> THEN << >>
    ELSE IF Truthy(Head(items)) THEN <<Head(items)>> \o FilterBoolean(Tail(items))
    ELSE FilterBoolean(Tail(items))

\* variant: the message of a format error does not name the task
InvalidFormat_NoTaskId(id, kind) ==
    UserError("none", "Invalid " \o kind \o " output format", JStr("zod issues"))

\* new UserError(`TaskId: ${taskId}, Invalid <kind> output format: ${result.error.message}`)
InvalidFormat(id, kind) ==
    UserError(id, "Invalid " \o kind \o " output format", JStr("zod issues"))

\* new UserError(`TaskId: ${taskId}, Task completed but no <what> found`)
NothingFound(id, what) ==
    UserError(id, "Task completed but no " \o what \o " found", JUndefined)

Parsed(value) == [kind |-> "return", value |-> value]

\* variant: the schema has no refinement
ImageRefine_None(o) == TRUE

\* ImageOutputSchema .refine(...)
ImageRefine(o) ==
    \/ Truthy(Field(o, "image_url"))
    \/ NonEmptyArray(Field(o, "image_urls"))
    \/ NonEmptyArray(Field(o, "temporary_image_urls"))

\* ImageOutputSchema.safeParse(output).success
ImageSchemaOk(o) ==
    /\ IsObject(o)
    /\ IsOptionalString(Field(o, "image_url"))
    /\ IsNullableOptionalStringArray(Field(o, "image_urls"))
    /\ IsNullableOptionalStringArray(Field(o, "temporary_image_urls"))
    /\ ImageRefine(o)

\* variant: any non-empty fallback list counts as a Midjourney response
IsMidjourney_AnyFallback(o) ==
    /\ IsArray(Field(o, "temporary_image_urls"))
    /\ Len(Field(o, "temporary_image_urls").items) > 0

\* const isMidjourney = ...
IsMidjourney(o) ==
    /\ IsArray(Field(o, "temporary_image_urls"))
    /\ Len(Field(o, "temporary_image_urls").items) > 0
    /\ Field(o, "image_urls") = JNull

\* variant: the fallback list is placed before the canonical list
ImageUrlsOf_FallbackFirst(o) ==
    FilterBoolean(
        (IF Truthy(Field(o, "image_url")) THEN <<Field(o, "image_url")>> ELSE << >>)
        \o (IF Truthy(Field(o, "temporary_image_urls"))
            THEN Field(o, "temporary_image_urls").items ELSE << >>)
        \o (IF ~IsMidjourney(o) /\ Truthy(Field(o, "image_urls"))
            THEN Field(o, "image_urls").items ELSE << >>))

\* const imageUrls = [...].filter(Boolean)
ImageUrlsOf(o) ==
    FilterBoolean(
        (IF Truthy(Field(o, "image_url")) THEN <<Field(o, "image_url")>> ELSE << >>)
        \o (IF ~IsMidjourney(o) /\ Truthy(Field(o, "image_urls"))
            THEN Field(o, "image_urls").items ELSE << >>)
        \o (IF Truthy(Field(o, "temporary_image_urls"))
            THEN Field(o, "temporary_image_urls").items ELSE << >>))

ParseImageOutput(id, o) ==
    IF ~ImageSchemaOk(o) THEN InvalidFormat(id, "image")
    ELSE IF Len(ImageUrlsOf(o)) = 0 THEN NothingFound(id, "image URLs")
    ELSE Parsed(ImageUrlsOf(o))

\* AudioOutputSchema.safeParse(output).success
AudioSchemaOk(o) ==
    /\ IsObject(o)
    /\ IsString(Field(o, "audio_url"))
    /\ Truthy(Field(o, "audio_url"))

ParseAudioOutput(id, o) ==
    IF ~AudioSchemaOk(o) THEN InvalidFormat(id, "audio")
    ELSE IF ~Truthy(Field(o, "audio_url")) THEN NothingFound(id, "audio URL")
    ELSE Parsed(Field(o, "audio_url"))

\* variant: video_url is optional in the schema
VideoSchemaOk_Optional(o) ==
    /\ IsObject(o)
    /\ IsOptionalString(Field(o, "video_url"))

\* VideoOutputSchema.safeParse(output).success
VideoSchemaOk(o) ==
    /\ IsObject(o)
    /\ IsString(Field(o, "video_url"))
    /\ Truthy(Field(o, "video_url"))

ParseVideoOutput(id, o) ==
    IF ~VideoSchemaOk(o) THEN InvalidFormat(id, "video")
    ELSE IF ~Truthy(Field(o, "video_url")) THEN NothingFound(id, "video URL")
    ELSE Parsed(Field(o, "video_url"))

\* one element of works
KlingWorkOk(w) ==
    /\ IsObject(w)
    /\ IsObject(Field(w, "video"))
    /\ IsString(Field(Field(w, "video"), "resource_without_watermark"))

\* KlingOutputSchema.safeParse(output).success
KlingSchemaOk(o) ==
    /\ IsObject(o)
    /\ IsString(Field(o, "video_url"))
    /\ IsArray(Field(o, "works"))
    /\ \A i \in 1..Len(Field(o, "works").items) : KlingWorkOk(Field(o, "works").items[i])

\* urls.push(result.data.video_url); for (const work of works) urls.push(...)
KlingUrlsOf(o) ==
    <<Field(o, "video_url")>>
    \o [i \in 1..Len(Field(o, "works").items) |->
            Field(o, "works").items[i].video.resource_without_watermark]

ParseKlingOutput(id, o) ==
    IF ~KlingSchemaOk(o) THEN InvalidFormat(id, "kling")
    ELSE IF Len(KlingUrlsOf(o)) = 0 THEN NothingFound(id, "video/work URLs")
    ELSE Parsed(KlingUrlsOf(o))

\* z.object({ url: z.string(), width: z.number(), height: z.number() })
LumaFrameOk(f) ==
    /\ IsObject(f)
    /\ IsString(Field(f, "url"))
    /\ IsNumber(Field(f, "width"))
    /\ IsNumber(Field(f, "height"))

\* LumaOutputSchema.safeParse(output).success
LumaSchemaOk(o) ==
    /\ IsObject(o)
    /\ LumaFrameOk(Field(o, "video_raw"))
    /\ LumaFrameOk(Field(o, "last_frame"))

\* the parsed copy of a frame: unknown keys are stripped
LumaFrameOf(f) ==
    [t |-> "object", url |-> f.url, width |-> f.width, height |-> f.height]

ParseLumaOutput(id, o) ==
    IF ~LumaSchemaOk(o) THEN InvalidFormat(id, "luma")
    ELSE Parsed(<<LumaFrameOf(o.video_raw), LumaFrameOf(o.last_frame)>>)

\* z.map(...) accepts instances of Map only
IsMap(v) == v.t = "map"

\* SunoMusicOutputSchema.safeParse(output).success
SunoSchemaOk(o) ==
    /\ IsObject(o)
    /\ IsMap(Field(o, "clips"))

\* Object.entries(result.data.clips): a Map has no own enumerable properties
SunoClipsOf(o) == << >>

ParseSunoMusicOutput(id, o) ==
    IF ~SunoSchemaOk(o) THEN InvalidFormat(id, "suno music")
    ELSE IF Len(SunoClipsOf(o)) = 0 THEN NothingFound(id, "audio/image URLs")
    ELSE Parsed(SunoClipsOf(o))

\* variant: the schema has no refinement
TrellisSchemaOk_NoRefine(o) ==
    /\ IsObject(o)
    /\ IsString(Field(o, "no_background_image"))
    /\ IsString(Field(o, "combined_video"))
    /\ IsString(Field(o, "model_file"))

\* TrellisOutputSchema.safeParse(output).success
TrellisSchemaOk(o) ==
    /\ IsObject(o)
    /\ IsString(Field(o, "no_background_image"))
    /\ IsString(Field(o, "combined_video"))
    /\ IsString(Field(o, "model_file"))
    /\ Truthy(Field(o, "no_background_image"))
    /\ Truthy(Field(o, "combined_video"))
    /\ Truthy(Field(o, "model_file"))

ParseTrellisOutput(id, o) ==
    IF ~TrellisSchemaOk(o) THEN InvalidFormat(id, "trellis")
    ELSE IF \/ ~Truthy(Field(o, "no_background_image"))
            \/ ~Truthy(Field(o, "combined_video"))
            \/ ~Truthy(Field(o, "model_file"))
         THEN NothingFound(id, "image/video/model file URL")
    ELSE Parsed(<<o.no_background_image, o.combined_video, o.model_file>>)

----------------------------------------------------------------------------
(* Tools and the outputs their parsers are given *)

Tools == {"generate_image", "tts_zero_shot", "generate_video_kling",
          "generate_music_suno", "generate_video_luma", "generate_3d_model",
          "generate_video_hailuo"}

\* the parse*Output call of each tool's execute
ParseOutputOf(name, id, o) ==
    CASE name = "generate_image" -> ParseImageOutput(id, o)
      [] name = "tts_zero_shot" -> ParseAudioOutput(id, o)
      [] name = "generate_video_kling" -> ParseKlingOutput(id, o)
      [] name = "generate_music_suno" -> ParseSunoMusicOutput(id, o)
      [] name = "generate_video_luma" -> ParseLumaOutput(id, o)
      [] name = "generate_3d_model" -> ParseTrellisOutput(id, o)
      [] name = "generate_video_hailuo" -> ParseVideoOutput(id, o)
      [] name \in {"modify_image", "derive_image", "generate_image_controlnet"} ->
            ParseImageOutput(id, o)
      [] name \in {"generate_video_hunyuan", "generate_video_wan"} -> ParseVideoOutput(id, o)

\* values a provider may put where a URL string is expected
UrlValues == {JUndefined, JStr(""), JStr("a"), JNum(1)}

\* outputs that are not objects (the task client lets only truthy outputs through)
NonObjects == {JStr("text"), JNum(5), JArr(<< >>)}

ImageUrlLists == {JUndefined, JNull, JArr(<< >>), JArr(<<JStr("b")>>),
                  JArr(<<JStr("a"), JStr("b")>>), JArr(<<JStr("a"), JStr("a")>>),
                  JArr(<<JStr(""), JStr("b")>>), JArr(<<JNum(1)>>)}
TemporaryUrlLists == {JUndefined, JNull, JArr(<< >>), JArr(<<JStr("c")>>),
                      JArr(<<JStr("")>>)}

ImageOutputs ==
    {[t |-> "object", image_url |-> u, image_urls |-> l, temporary_image_urls |-> f] :
        u \in UrlValues, l \in ImageUrlLists, f \in TemporaryUrlLists}

AudioOutputs == {[t |-> "object", audio_url |-> u] : u \in UrlValues}

VideoOutputs ==
    {[t |-> "object", video_url |-> u] : u \in UrlValues}
    \cup {[t |-> "object", video_url |-> u, duration |-> JNum(5)] : u \in UrlValues}

KlingWork(u) == [t |-> "object", video |-> [t |-> "object", resource_without_watermark |-> u]]
KlingWorkLists == {JUndefined, JArr(<< >>), JArr(<<KlingWork(JStr("w1"))>>),
                   JArr(<<KlingWork(JStr("w1")), KlingWork(JStr("w2"))>>),
                   JArr(<<KlingWork(JUndefined)>>),
                   JArr(<<[t |-> "object", video |-> JUndefined]>>)}
KlingOutputs ==
    {[t |-> "object", video_url |-> u, works |-> w] : u \in UrlValues, w \in KlingWorkLists}

LumaFrames == {JUndefined,
               [t |-> "object", url |-> JStr("a"), width |-> JNum(1280), height |-> JNum(720)],
               [t |-> "object", url |-> JStr("a"), width |-> JStr("1280"), height |-> JNum(720)],
               [t |-> "object", url |-> JUndefined, width |-> JNum(1280), height |-> JNum(720)]}
LumaOutputs ==
    {[t |-> "object", video_raw |-> v, last_frame |-> f] : v \in LumaFrames, f \in LumaFrames}

\* clips as the provider's JSON delivers them: a plain object keyed by clip id
SunoClip(a, i) == [t |-> "object", audio_url |-> a, image_url |-> i]
SunoClipObjects == {JUndefined, EmptyObject,
                    [t |-> "object", c1 |-> SunoClip(JStr("a"), JStr("i"))],
                    [t |-> "object", c1 |-> SunoClip(JStr("a"), JStr("i")),
                                     c2 |-> SunoClip(JStr("b"), JStr("j"))],
                    [t |-> "object", c1 |-> SunoClip(JStr("a"), JUndefined)]}
SunoOutputs == {[t |-> "object", clips |-> c] : c \in SunoClipObjects}

TrellisOutputs ==
    {[t |-> "object", no_background_image |-> i, combined_video |-> v, model_file |-> m] :
        i \in UrlValues, v \in UrlValues, m \in {JUndefined, JStr(""), JStr("m")}}

RawOutputsOf(name) ==
    {EmptyObject} \cup NonObjects \cup
    ( CASE name = "generate_image" -> ImageOutputs
        [] name = "tts_zero_shot" -> AudioOutputs
        [] name = "generate_video_kling" -> KlingOutputs
        [] name = "generate_music_suno" -> SunoOutputs
        [] name = "generate_video_luma" -> LumaOutputs
        [] name = "generate_3d_model" -> TrellisOutputs
        [] name \in {"generate_video_hailuo", "generate_video_hunyuan",
                      "generate_video_wan"} -> VideoOutputs )

----------------------------------------------------------------------------
(* Initial state and actions *)

Init ==
    /\ pc = "start"
    /\ maxAttempts \in 1..MaxAttemptsBound
    /\ timeout \in Timeouts
    /\ taskId = NoTask
    /\ attempt = 0
    /\ statusData = NoResponse
    /\ calls = << >>
    /\ outcome = NoOutcome
    /\ createData = NoResponse
    /\ reports = {}
    /\ tool = NoTool
    /\ args = NoArgs
    /\ rawOutput = JUndefined
    /\ job = NoJob
    /\ result = NoOutcome
    /\ peer = NoPeer

\* variant: the submission is sent again after a failed submission
HandleTask_Retry ==
    /\ \/ pc = "start"
       \/ pc = "done" /\ outcome.kind = "throw" /\ outcome.text = "Task creation failed"
    /\ pc' = "creating"
    /\ calls' = Append(calls, [op |-> "post"])
    /\ outcome' = NoOutcome
    /\ UNCHANGED <<maxAttempts, timeout, taskId, attempt, statusData>>
    /\ UNCHANGED <<createData, reports>>
    /\ UNCHANGED toolVars
    /\ UNCHANGED peer

\* handleTask up to the await of createTask's fetch
HandleTask ==
    /\ pc = "start"
    /\ pc' = "creating"
    /\ calls' = Append(calls, [op |-> "post"])
    /\ UNCHANGED <<maxAttempts, timeout, taskId, attempt, statusData, outcome>>
    /\ UNCHANGED <<createData, reports>>
    /\ UNCHANGED toolVars
    /\ UNCHANGED peer

\* createTask from the arrival of the response, then getTaskResult up to the
\* await of the first status fetch
\* (createData is local to createTask: it is kept at the throw and dropped
\* at the return)
CreateTaskResponse(resp) ==
    /\ pc = "creating"
    /\ LET received == Append(calls, [op |-> "created", code |-> resp.code])
       IN  IF SubmissionFailed(resp)
           THEN /\ pc' = "done"
                /\ createData' = resp
                /\ outcome' = UserError(NoTask, "Task creation failed", resp.message)
                /\ calls' = received
                /\ UNCHANGED <<taskId, attempt, statusData, reports>>
           ELSE /\ taskId' = resp.data.task_id
                /\ createData' = NoResponse
                /\ LoopIteration(resp.data.task_id, 0, received)
    /\ UNCHANGED <<maxAttempts, timeout>>
    /\ UNCHANGED toolVars
    /\ UNCHANGED peer

\* getTaskResult from the arrival of a status response to the return, the
\* throw or the await of the sleep
StatusResponse(sd) ==
    /\ pc = "checking"
    /\ statusData' = sd
    /\ LET received == Append(calls, [op |-> "status", code |-> sd.code,
                                      status |-> sd.data.status])
       IN  IF StatusCheckFailed(sd)
           THEN /\ pc' = "done"
                /\ outcome' = UserError(taskId, "Status check failed", sd.message)
                /\ calls' = received
           ELSE IF IsCompleted(sd.data.status)
           THEN /\ pc' = "done"
                /\ outcome' = IF NoOutput(sd.data.output)
                              THEN UserError(taskId, "Task completed but no output found", JUndefined)
                              ELSE TaskResult(taskId, sd)
                /\ calls' = received
           ELSE IF IsFailed(sd.data.status)
           THEN /\ pc' = "done"
                /\ outcome' = UserError(taskId, "Generation failed", ErrorMessageOf(sd.data.error))
                /\ calls' = received
           ELSE /\ pc' = "sleeping"
                /\ outcome' = outcome
                /\ calls' = Append(received, SleepOf(timeout, maxAttempts))
    /\ UNCHANGED <<maxAttempts, timeout, taskId, attempt>>
    /\ UNCHANGED <<createData, reports>>
    /\ UNCHANGED toolVars
    /\ UNCHANGED peer

\* getTaskResult from the end of the sleep: attempt++ and the next iteration
SleepElapsed ==
    /\ pc = "sleeping"
    /\ LoopIteration(taskId, attempt + 1, calls)
    /\ UNCHANGED <<maxAttempts, timeout, taskId, createData>>
    /\ UNCHANGED toolVars
    /\ UNCHANGED peer

Next ==
    \/ HandleTask
    \/ \E resp \in CreateResponses : CreateTaskResponse(resp)
    \/ \E sd \in StatusResponses : StatusResponse(sd)
    \/ SleepElapsed

Spec == Init /\ [][Next]_vars

----------------------------------------------------------------------------
(* The result parsers on their own: each parser applied to each output *)

\* variant: the parser drops the empty strings from the lists of the output itself
RawOutputAfterParse_Filtered(name, o) ==
    IF name = "generate_image" /\ IsObject(o) /\ IsArray(Field(o, "image_urls"))
    THEN [o EXCEPT !.image_urls = JArr(FilterBoolean(o.image_urls.items))]
    ELSE o

\* what the parser leaves in the object it was given: safeParse builds a new
\* object and the parsers write only to their own arrays
RawOutputAfterParse(name, o) == o

ParseInit ==
    /\ pc = "parse"
    /\ tool \in Tools
    /\ taskId \in TaskIds
    /\ rawOutput \in RawOutputsOf(tool)
    /\ result = NoOutcome
    /\ peer = NoPeer
    /\ maxAttempts = 1
    /\ timeout \in Timeouts
    /\ attempt = 0
    /\ statusData = NoResponse
    /\ createData = NoResponse
    /\ calls = << >>
    /\ reports = {}
    /\ outcome = NoOutcome
    /\ args = NoArgs
    /\ job = NoJob

\* parse*Output(taskId, output)
ParseOutput ==
    /\ pc = "parse"
    /\ pc' = "finished"
    /\ result' = ParseOutputOf(tool, taskId, rawOutput)
    /\ rawOutput' = RawOutputAfterParse(tool, rawOutput)
    /\ UNCHANGED <<maxAttempts, timeout, taskId, attempt, statusData, calls, outcome,
                   createData, reports, tool, args, job, peer>>

ParseNext == ParseOutput

ParseSpec == ParseInit /\ [][ParseNext]_vars

----------------------------------------------------------------------------
(* Tool arguments: the parameters schemas and the checks of execute *)

DigitOf(c) ==
    CASE c = "0" -> 0 [] c = "1" -> 1 [] c = "2" -> 2 [] c = "3" -> 3 [] c = "4" -> 4
      [] c = "5" -> 5 [] c = "6" -> 6 [] c = "7" -> 7 [] c = "8" -> 8 [] c = "9" -> 9
      [] OTHER -> -1

\* the value of the longest prefix of digits, -1 when there is none
RECURSIVE LeadingDigits(_, _, _)
LeadingDigits(s, acc, seen) ==
    IF Len(s) = 0 \/ DigitOf(SubSeq(s, 1, 1)) < 0
    THEN IF seen THEN acc ELSE -1
    ELSE LeadingDigits(SubSeq(s, 2, Len(s)), acc * 10 + DigitOf(SubSeq(s, 1, 1)), TRUE)

\* parseInt(val) in base 10: an optional sign, then digits up to the first other
\* character; NaN when no digit is found
ParseInt(s) ==
    LET negative == Len(s) > 0 /\ SubSeq(s, 1, 1) = "-"
        signed == Len(s) > 0 /\ SubSeq(s, 1, 1) \in {"-", "+"}
        n == LeadingDigits(IF signed THEN SubSeq(s, 2, Len(s)) ELSE s, 0, FALSE)
    IN  IF n < 0 THEN JNaN ELSE JNum(IF negative THEN 0 - n ELSE n)

\* .transform((val) => (typeof val === "string" ? parseInt(val) : val))
CoerceNumber(v) == IF IsString(v) THEN ParseInt(v.s) ELSE v

\* variant: the coerced value is not piped through the range check
SizeOk_Unbounded(v) ==
    \/ v = JUndefined
    \/ /\ IsString(v) \/ IsNumber(v)
       /\ IsNumber(CoerceNumber(v))

\* z.union([z.string(), z.number()]).transform(...).pipe(z.number().min(128).max(1024)).optional()
SizeOk(v) ==
    \/ v = JUndefined
    \/ /\ IsString(v) \/ IsNumber(v)
       /\ IsNumber(CoerceNumber(v))
       /\ CoerceNumber(v).n >= 128
       /\ CoerceNumber(v).n <= 1024

\* .default(1024)
SizeOf(v) == IF v = JUndefined THEN JNum(1024) ELSE CoerceNumber(v)

\* z.string().max(n)
IsStringUpTo(v, n) == IsString(v) /\ Len(v.s) <= n

\* z.string().url(): the text parses as a URL, which takes a scheme
IsUrl(v) ==
    /\ IsString(v)
    /\ \E i \in 2..Len(v.s) : SubSeq(v.s, i, i) = ":"

\* z.enum(values).optional()
IsOptionalEnum(v, values) == v = JUndefined \/ (IsString(v) /\ v.s \in values)

\* z.boolean().optional()
IsOptionalBoolean(v) == v = JUndefined \/ v.t = "boolean"

\* x.optional().default(d)
WithDefault(v, d) == IF v = JUndefined THEN d ELSE v

HailuoModels == {"t2v-01", "t2v-01-director", "i2v-01", "i2v-01-live", "i2v-01-director", "s2v-01"}

\* steps: z.union([z.string(), z.number()]).transform(...).optional()
StepsOk(v) == v = JUndefined \/ IsString(v) \/ IsNumber(v)

\* .default(0)
StepsArgumentOf(v) == IF v = JUndefined THEN JNum(0) ELSE CoerceNumber(v)

\* the parameters schema of each tool accepts the arguments
ParametersOk(name, a) ==
    CASE name = "generate_image" ->
            /\ IsString(Field(a, "prompt"))
            /\ SizeOk(Field(a, "width"))
            /\ SizeOk(Field(a, "height"))
            /\ StepsOk(Field(a, "steps"))
            /\ IsOptionalEnum(Field(a, "model"), {"schnell", "dev"})
      [] name = "tts_zero_shot" ->
            /\ IsString(Field(a, "genText"))
            /\ IsUrl(Field(a, "refAudio"))
      [] name = "generate_video_kling" ->
            /\ IsString(Field(a, "prompt"))
            /\ Field(a, "referenceImage") = JUndefined \/ IsUrl(Field(a, "referenceImage"))
      [] name = "generate_music_suno" ->
            /\ IsStringUpTo(Field(a, "prompt"), 3000)
            /\ IsOptionalBoolean(Field(a, "makeInstrumental"))
            /\ Field(a, "title") = JUndefined \/ IsStringUpTo(Field(a, "title"), 80)
            /\ Field(a, "tags") = JUndefined \/ IsStringUpTo(Field(a, "tags"), 200)
            /\ Field(a, "negativeTags") = JUndefined \/ IsStringUpTo(Field(a, "negativeTags"), 200)
      [] name = "generate_video_luma" ->
            /\ IsString(Field(a, "prompt"))
            /\ Field(a, "keyFrame") = JUndefined \/ IsUrl(Field(a, "keyFrame"))
      [] name = "generate_3d_model" ->
            IsUrl(Field(a, "image"))
      [] name = "generate_video_hailuo" ->
            /\ IsStringUpTo(Field(a, "prompt"), 2000)
            /\ Field(a, "imageUrl") = JUndefined \/ IsUrl(Field(a, "imageUrl"))
            /\ IsOptionalEnum(Field(a, "model"), HailuoModels)
      [] name = "modify_image" ->
            /\ IsString(Field(a, "prompt"))
            /\ IsUrl(Field(a, "referenceImage"))
            /\ StepsOk(Field(a, "steps"))
            /\ IsString(Field(a, "model")) /\ Field(a, "model").s \in {"inpaint", "outpaint"}
      [] name \in {"derive_image", "generate_image_controlnet"} ->
            /\ IsString(Field(a, "prompt"))
            /\ IsUrl(Field(a, "referenceImage"))
            /\ StepsOk(Field(a, "steps"))
      [] name = "generate_video_hunyuan" ->
            /\ IsString(Field(a, "prompt"))
            /\ Field(a, "referenceImage") = JUndefined \/ IsUrl(Field(a, "referenceImage"))
            /\ IsOptionalEnum(Field(a, "model"),
                              {"hunyuan", "fastHunyuan", "hunyuanConcat", "hunyuanReplace"})
      [] name = "generate_video_wan" ->
            /\ IsString(Field(a, "prompt"))
            /\ Field(a, "referenceImage") = JUndefined \/ IsUrl(Field(a, "referenceImage"))
            /\ IsOptionalEnum(Field(a, "model"), {"wan1_3b", "wan14b"})

\* the arguments as execute receives them: coerced, with the defaults filled in
ParsedArguments(name, a) ==
    CASE name = "generate_image" ->
            [a EXCEPT !.width = SizeOf(a.width), !.height = SizeOf(a.height),
                      !.steps = StepsArgumentOf(a.steps),
                      !.model = WithDefault(a.model, JStr("schnell"))]
      [] name \in {"modify_image", "derive_image", "generate_image_controlnet"} ->
            [a EXCEPT !.steps = StepsArgumentOf(a.steps)]
      [] name = "generate_video_hunyuan" ->
            [a EXCEPT !.model = WithDefault(a.model, JStr("hunyuan"))]
      [] name = "generate_video_wan" ->
            [a EXCEPT !.model = WithDefault(a.model, JStr("wan1_3b"))]
      [] name = "generate_music_suno" ->
            [a EXCEPT !.makeInstrumental = WithDefault(a.makeInstrumental, JBool(FALSE))]
      [] name = "generate_video_hailuo" ->
            [a EXCEPT !.model = WithDefault(a.model, JStr("t2v-01"))]
      [] OTHER -> a

\* the rejection of a call whose arguments do not match the parameters schema
InvalidParameters ==
    [kind |-> "throw", type |-> "InvalidParams", taskId |-> NoTask,
     text |-> "Invalid parameters", detail |-> JStr("zod issues")]

\* args.model.startsWith("i2v") || args.model === "s2v-01"
IsImageToVideo(model) ==
    \/ Len(model.s) >= 3 /\ SubSeq(model.s, 1, 3) = "i2v"
    \/ model.s = "s2v-01"

NoError == [kind |-> "none"]

\* the checks at the head of each execute: the error thrown, if any
ExecuteError(name, a) ==
    CASE name = "generate_image" ->
            IF ~Truthy(a.prompt) THEN UserError(NoTask, "Prompt is required", JUndefined)
            ELSE NoError
      [] name = "tts_zero_shot" ->
            IF ~Truthy(a.genText) \/ ~Truthy(a.refAudio)
            THEN UserError(NoTask, "genText and refAudio are required", JUndefined)
            ELSE NoError
      [] name = "generate_video_kling" ->
            IF ~Truthy(a.prompt) THEN UserError(NoTask, "Prompt is required", JUndefined)
            ELSE NoError
      [] name = "generate_music_suno" ->
            IF ~Truthy(a.prompt) THEN UserError(NoTask, "Prompt is required", JUndefined)
            ELSE IF /\ Truthy(a.title) \/ Truthy(a.tags) \/ Truthy(a.negativeTags)
                    /\ Truthy(a.makeInstrumental)
            THEN UserError(NoTask, "makeInstrumental is not compatible with title, tags, negativeTags",
                           JUndefined)
            ELSE NoError
      [] name = "generate_video_luma" ->
            IF ~Truthy(a.prompt) THEN UserError(NoTask, "Prompt is required", JUndefined)
            ELSE NoError
      [] name = "generate_3d_model" ->
            IF ~Truthy(a.image) THEN UserError(NoTask, "Image is required", JUndefined)
            ELSE NoError
      [] name = "generate_video_hailuo" ->
            IF ~Truthy(a.prompt) THEN UserError(NoTask, "Prompt is required", JUndefined)
            ELSE IF IsImageToVideo(a.model) /\ ~Truthy(a.imageUrl)
            THEN UserError(NoTask, "Image URL is required for model", a.model)
            ELSE NoError
      [] name \in {"modify_image", "derive_image", "generate_image_controlnet"} ->
            IF ~Truthy(a.prompt) THEN UserError(NoTask, "Prompt is required", JUndefined)
            ELSE IF ~Truthy(a.referenceImage)
            THEN UserError(NoTask, "Reference image is required", JUndefined)
            ELSE NoError
      [] name \in {"generate_video_hunyuan", "generate_video_wan"} ->
            IF ~Truthy(a.prompt) THEN UserError(NoTask, "Prompt is required", JUndefined)
            ELSE NoError

\* the configuration tables
IMAGE_TOOL_CONFIG ==
    [faceswap |-> [maxAttempts |-> 30, timeout |-> 60],
     rmbg |-> [maxAttempts |-> 30, timeout |-> 60],
     segment |-> [maxAttempts |-> 30, timeout |-> 60],
     upscale |-> [maxAttempts |-> 30, timeout |-> 60]]
VIDEO_TOOL_CONFIG ==
    [faceswap |-> [maxAttempts |-> 30, timeout |-> 600],
     upscale |-> [maxAttempts |-> 30, timeout |-> 300]]
FLUX_MODEL_CONFIG ==
    [schnell |-> [defaultSteps |-> 4, maxSteps |-> 10, maxAttempts |-> 30, timeout |-> 60],
     dev |-> [defaultSteps |-> 25, maxSteps |-> 40, maxAttempts |-> 30, timeout |-> 120],
     inpaint |-> [defaultSteps |-> 25, maxSteps |-> 40, maxAttempts |-> 30, timeout |-> 120],
     outpaint |-> [defaultSteps |-> 25, maxSteps |-> 40, maxAttempts |-> 30, timeout |-> 120],
     variation |-> [defaultSteps |-> 25, maxSteps |-> 40, maxAttempts |-> 30, timeout |-> 120],
     controlnet |-> [defaultSteps |-> 25, maxSteps |-> 40, maxAttempts |-> 30, timeout |-> 180]]
HUNYUAN_MODEL_CONFIG ==
    [hunyuan |-> [maxAttempts |-> 60, timeout |-> 900, taskType |-> "txt2video"],
     fastHunyuan |-> [maxAttempts |-> 60, timeout |-> 600, taskType |-> "fast-txt2video"],
     hunyuanConcat |-> [maxAttempts |-> 60, timeout |-> 900, taskType |-> "img2video-concat"],
     hunyuanReplace |-> [maxAttempts |-> 60, timeout |-> 900, taskType |-> "img2video-replace"]]
SKYREELS_MODEL_CONFIG == [skyreels |-> [maxAttempts |-> 30, timeout |-> 300]]
WAN_MODEL_CONFIG ==
    [wan1_3b |-> [maxAttempts |-> 30, timeout |-> 300],
     wan14b |-> [maxAttempts |-> 60, timeout |-> 900]]
MMAUDIO_MODEL_CONFIG == [mmaudio |-> [maxAttempts |-> 30, timeout |-> 600]]
TTS_MODEL_CONFIG == [zeroShot |-> [maxAttempts |-> 30, timeout |-> 600]]
MIDJOURNEY_MODEL_CONFIG == [imagine |-> [maxAttempts |-> 30, timeout |-> 900]]
KLING_MODEL_CONFIG ==
    [video |-> [maxAttempts |-> 30, timeout |-> 900],
     effect |-> [maxAttempts |-> 30, timeout |-> 900]]
SUNO_MODEL_CONFIG == [music |-> [maxAttempts |-> 30, timeout |-> 900]]
LUMA_MODEL_CONFIG == [luma |-> [maxAttempts |-> 30, timeout |-> 900]]
TRELLIS_MODEL_CONFIG == [trellis |-> [maxAttempts |-> 30, timeout |-> 600]]
HAILUO_MODEL_CONFIG == [hailuo |-> [maxAttempts |-> 60, timeout |-> 900]]

\* TABLE[key]: undefined when the table has no such key
Lookup(table, key) == IF key \in DOMAIN table THEN table[key] ELSE JUndefined

\* variant: the arguments are left as they were given
RewrittenArguments_AsGiven(name, a) == a

\* variant: the Wan model is rewritten to a name the table does not have
RewrittenArguments_Misspelt(name, a) ==
    CASE name = "generate_video_hunyuan" ->
            IF Truthy(a.referenceImage) /\ a.model \in {JStr("hunyuan"), JStr("fastHunyuan")}
            THEN [a EXCEPT !.model = JStr("hunyuanConcat")]
            ELSE a
      [] name = "generate_video_wan" ->
            IF Truthy(a.referenceImage) THEN [a EXCEPT !.model = JStr("wan14B")] ELSE a
      [] OTHER -> a

\* the arguments after the assignments of execute to args.model
RewrittenArguments(name, a) ==
    CASE name = "generate_video_hunyuan" ->
            IF Truthy(a.referenceImage) /\ a.model \in {JStr("hunyuan"), JStr("fastHunyuan")}
            THEN [a EXCEPT !.model = JStr("hunyuanConcat")]
            ELSE a
      [] name = "generate_video_wan" ->
            IF Truthy(a.referenceImage) THEN [a EXCEPT !.model = JStr("wan14b")] ELSE a
      [] OTHER -> a

\* the job configuration each execute passes to handleTask, from the
\* arguments after their rewriting
ConfigOf(name, a) ==
    CASE name \in {"generate_image", "modify_image"} -> Lookup(FLUX_MODEL_CONFIG, a.model.s)
      [] name = "derive_image" -> Lookup(FLUX_MODEL_CONFIG, "variation")
      [] name = "generate_image_controlnet" -> Lookup(FLUX_MODEL_CONFIG, "controlnet")
      [] name = "generate_video_hunyuan" -> Lookup(HUNYUAN_MODEL_CONFIG, a.model.s)
      [] name = "generate_video_wan" -> Lookup(WAN_MODEL_CONFIG, a.model.s)
      [] name = "tts_zero_shot" -> Lookup(TTS_MODEL_CONFIG, "zeroShot")
      [] name = "generate_video_kling" -> Lookup(KLING_MODEL_CONFIG, "video")
      [] name = "generate_music_suno" -> Lookup(SUNO_MODEL_CONFIG, "music")
      [] name = "generate_video_luma" -> Lookup(LUMA_MODEL_CONFIG, "luma")
      [] name = "generate_3d_model" -> Lookup(TRELLIS_MODEL_CONFIG, "trellis")
      [] name = "generate_video_hailuo" -> Lookup(HAILUO_MODEL_CONFIG, "hailuo")

\* Math.min(x, y)
MathMin(x, y) == IF x.n < y.n THEN x ELSE y

\* variant: the steps are not limited to maxSteps
StepsOf_Unlimited(a, config) == JsOr(a.steps, JNum(config.defaultSteps))

\* let steps = args.steps || config.defaultSteps; steps = Math.min(steps, config.maxSteps)
StepsOf(a, config) ==
    MathMin(JsOr(a.steps, JNum(config.defaultSteps)), JNum(config.maxSteps))

\* the object each execute serialises into requestBody, from the arguments
\* as execute received them
RequestBodyOf(name, a) ==
    CASE name = "generate_image" ->
            [model |-> IF a.model = JStr("schnell") THEN "Qubico/flux1-schnell"
                       ELSE "Qubico/flux1-dev",
             task_type |-> "txt2img",
             input |-> [prompt |-> a.prompt, width |-> a.width, height |-> a.height,
                        steps |-> StepsOf(a, ConfigOf(name, a))]]
      [] name = "modify_image" ->
            [model |-> "Qubico/flux1-dev-advanced",
             task_type |-> IF a.model = JStr("inpaint") THEN "fill-inpaint" ELSE "fill-outpaint",
             input |-> [prompt |-> a.prompt, image |-> a.referenceImage,
                        steps |-> StepsOf(a, ConfigOf(name, a))]]
      [] name = "derive_image" ->
            [model |-> "Qubico/flux1-dev-advanced",
             task_type |-> "redux-variation",
             input |-> [prompt |-> a.prompt, image |-> a.referenceImage,
                        steps |-> StepsOf(a, ConfigOf(name, a))]]
      [] name = "generate_image_controlnet" ->
            [model |-> "Qubico/flux1-dev-advanced",
             task_type |-> "controlnet-lora",
             input |-> [prompt |-> a.prompt, control_image |-> a.referenceImage,
                        steps |-> StepsOf(a, ConfigOf(name, a))]]
      [] name = "generate_video_hunyuan" ->
            [model |-> "Qubico/hunyuan",
             task_type |-> ConfigOf(name, RewrittenArguments(name, a)).taskType,
             input |-> [prompt |-> a.prompt, image |-> a.referenceImage]]
      [] name = "generate_video_wan" ->
            [model |-> "Qubico/wanx",
             task_type |-> IF Truthy(a.referenceImage) THEN "img2video-14b"
                           ELSE IF a.model = JStr("wan1_3b") THEN "txt2video-1.3b"
                           ELSE "txt2video-14b",
             input |-> [prompt |-> a.prompt, image |-> a.referenceImage]]
      [] name = "tts_zero_shot" ->
            [model |-> "Qubico/tts", task_type |-> "zero-shot",
             input |-> [gen_text |-> a.genText, ref_audio |-> a.refAudio]]
      [] name = "generate_video_kling" ->
            [model |-> "kling", task_type |-> "video_generation",
             input |-> [prompt |-> a.prompt, image_url |-> a.referenceImage]]
      [] name = "generate_music_suno" ->
            IF Truthy(a.title) \/ Truthy(a.tags) \/ Truthy(a.negativeTags)
            THEN [model |-> "music-s", task_type |-> "generate_music_custom",
                  input |-> [prompt |-> a.prompt, title |-> a.title, tags |-> a.tags,
                             negative_tags |-> a.negativeTags]]
            ELSE [model |-> "music-s", task_type |-> "generate_music",
                  input |-> [prompt |-> a.prompt, make_instrumental |-> a.makeInstrumental]]
      [] name = "generate_video_luma" ->
            [model |-> "luma", task_type |-> "video_generation",
             input |-> [prompt |-> a.prompt, key_frame |-> a.keyFrame]]
      [] name = "generate_3d_model" ->
            [model |-> "Qubico/trellis", task_type |-> "image-to-3d",
             input |-> [image |-> a.image]]
      [] name = "generate_video_hailuo" ->
            [model |-> a.model.s, task_type |-> "video_generation",
             input |-> [prompt |-> a.prompt, image_url |-> a.imageUrl]]

\* a property of the job configuration is read while it is undefined
TypeError ==
    [kind |-> "throw", type |-> "TypeError", taskId |-> NoTask,
     text |-> "Cannot read properties of undefined", detail |-> JUndefined]

\* the number of attempts of a run of the model
AttemptsOf(config) ==
    IF config.maxAttempts > ToolAttemptsBound THEN ToolAttemptsBound ELSE config.maxAttempts

Prompts == {JUndefined, JStr(""), JStr("a cat")}
UrlTexts == {JUndefined, JStr("https://host/file"), JStr("not a url")}
SizeValues == {JUndefined, JNull, JNum(127), JNum(128), JNum(1024), JNum(1025),
               JStr("512"), JStr("2000"), JStr("64"), JStr("abc")}

StepsValues == {JUndefined, JNum(0), JNum(5), JNum(40), JNum(41), JNum(0 - 3),
                JStr("8"), JStr("0"), JStr("99"), JStr("abc")}
ModelNames(names) == {JUndefined, JStr("other")} \cup {JStr(n) : n \in names}

\* arguments of generate_image with the given values of steps
FluxArguments(steps) ==
    {[t |-> "object", prompt |-> p, width |-> w, height |-> h, steps |-> s, model |-> m] :
        p \in Prompts, w \in SizeValues, h \in {JUndefined, JNum(2000), JStr("512")},
        s \in steps, m \in {JUndefined, JStr("dev"), JStr("pro")}}

ArgumentsOf(name) ==
    CASE name = "generate_image" -> FluxArguments({JUndefined})
      [] name = "modify_image" ->
            {[t |-> "object", prompt |-> p, referenceImage |-> r, steps |-> s, model |-> m] :
                p \in Prompts, r \in UrlTexts, s \in StepsValues,
                m \in ModelNames({"inpaint", "outpaint"})}
      [] name \in {"derive_image", "generate_image_controlnet"} ->
            {[t |-> "object", prompt |-> p, referenceImage |-> r, steps |-> s] :
                p \in Prompts, r \in UrlTexts, s \in StepsValues}
      [] name = "generate_video_hunyuan" ->
            {[t |-> "object", prompt |-> p, referenceImage |-> r, model |-> m] :
                p \in Prompts, r \in UrlTexts,
                m \in ModelNames({"hunyuan", "fastHunyuan", "hunyuanConcat", "hunyuanReplace"})}
      [] name = "generate_video_wan" ->
            {[t |-> "object", prompt |-> p, referenceImage |-> r, model |-> m] :
                p \in Prompts, r \in UrlTexts, m \in ModelNames({"wan1_3b", "wan14b"})}
      [] name = "tts_zero_shot" ->
            {[t |-> "object", genText |-> g, refAudio |-> r] : g \in Prompts, r \in UrlTexts}
      [] name = "generate_video_kling" ->
            {[t |-> "object", prompt |-> p, referenceImage |-> r] : p \in Prompts, r \in UrlTexts}
      [] name = "generate_music_suno" ->
            {[t |-> "object", prompt |-> p, makeInstrumental |-> i, title |-> ti, tags |-> tg,
              negativeTags |-> n] :
                p \in Prompts, i \in {JUndefined, JBool(TRUE), JBool(FALSE), JStr("yes")},
                ti \in {JUndefined, JStr(""), JStr("a title")}, tg \in {JUndefined, JStr("rock")},
                n \in {JUndefined, JStr("noise")}}
      [] name = "generate_video_luma" ->
            {[t |-> "object", prompt |-> p, keyFrame |-> k] : p \in Prompts, k \in UrlTexts}
      [] name = "generate_3d_model" ->
            {[t |-> "object", image |-> i] : i \in UrlTexts \cup {JStr("")}}
      [] name = "generate_video_hailuo" ->
            {[t |-> "object", prompt |-> p, imageUrl |-> i, model |-> m] :
                p \in Prompts, i \in UrlTexts,
                m \in {JUndefined, JStr("t2v-01"), JStr("i2v-01"), JStr("i2v-01-live"),
                       JStr("s2v-01"), JStr("x2v-01")}}

----------------------------------------------------------------------------
(* One tool invocation: the call, execute, the task client and the parser *)

\* POST /task response bodies of a tool run
ToolCreateResponses ==
    {r \in CreateResponses : r.code \in {200, 500} /\ r.message = JStr("provider message")}

\* GET /task/{task_id} response bodies of a tool run: the outputs are those of
\* the tool's media kind
ToolStatusResponses(name) ==
    {[code |-> c, message |-> JStr("provider message"),
      data |-> [status |-> s, output |-> o, error |-> [t |-> "object", message |-> JStr("boom")],
                meta |-> [t |-> "object", usage |-> [t |-> "object", consume |-> JStr("5")]]]] :
        c \in {200}, s \in {JStr("completed")}, o \in RawOutputsOf(name) \cup {JNull}}
    \cup {r \in StatusResponses :
            /\ r.message = JStr("provider message")
            /\ r.data.output = JNull
            /\ r.data.error = [t |-> "object", message |-> JStr("boom")]
            /\ r.data.meta = JUndefined
            /\ \/ r.code = 200 /\ r.data.status \in {JStr("failed"), JStr("pending")}
               \/ r.code = 500 /\ r.data.status = JStr("pending")}

\* the content blocks a tool returns
ContentOf(name, id, usage, value) ==
    IF name = "generate_music_suno"
    THEN <<[type |-> "text", taskId |-> id, usage |-> usage]>>
         \o [i \in 1..Len(value) |->
                [type |-> "text", audio_url |-> value[i].audio_url, image_url |-> value[i].image_url]]
    ELSE <<[type |-> "text", taskId |-> id, usage |-> usage, value |-> value]>>

ToolInit ==
    /\ pc = "call"
    /\ tool \in Tools
    /\ args \in ArgumentsOf(tool)
    /\ maxAttempts = 0
    /\ timeout = 0
    /\ taskId = NoTask
    /\ attempt = 0
    /\ statusData = NoResponse
    /\ createData = NoResponse
    /\ calls = << >>
    /\ reports = {}
    /\ outcome = NoOutcome
    /\ rawOutput = JUndefined
    /\ job = NoJob
    /\ result = NoOutcome
    /\ peer = NoPeer

\* the call of a tool: the arguments are validated against the parameters
\* schema before execute is called
CallTool ==
    /\ pc = "call"
    /\ IF ParametersOk(tool, args)
       THEN /\ pc' = "execute"
            /\ args' = ParsedArguments(tool, args)
            /\ result' = result
       ELSE /\ pc' = "finished"
            /\ args' = args
            /\ result' = InvalidParameters
    /\ UNCHANGED <<maxAttempts, timeout, taskId, attempt, statusData, calls, outcome,
                   createData, reports, tool, job, rawOutput, peer>>

\* execute up to its first await: the checks, the choice of the job
\* configuration, and handleTask up to the await of createTask's fetch
Execute ==
    /\ pc = "execute"
    /\ IF ExecuteError(tool, args) # NoError
       THEN /\ pc' = "finished"
            /\ result' = ExecuteError(tool, args)
            /\ UNCHANGED <<maxAttempts, timeout, calls, args, job>>
       ELSE LET config == ConfigOf(tool, RewrittenArguments(tool, args))
            IN  /\ args' = RewrittenArguments(tool, args)
                /\ IF config = JUndefined
                   THEN /\ pc' = "finished"
                        /\ result' = TypeError
                        /\ UNCHANGED <<maxAttempts, timeout, calls, job>>
                   ELSE /\ pc' = "creating"
                        /\ job' = [requestBody |-> RequestBodyOf(tool, args), config |-> config]
                        /\ maxAttempts' = AttemptsOf(config)
                        /\ timeout' = config.timeout
                        /\ calls' = Append(calls, [op |-> "post"])
                        /\ result' = result
    /\ UNCHANGED <<taskId, attempt, statusData, outcome, createData, reports, tool, rawOutput,
                   peer>>

\* execute after handleTask has settled: a throw of handleTask is the throw of
\* execute; a result is parsed and returned as content
ExecuteResume ==
    /\ pc = "done"
    /\ pc' = "finished"
    /\ IF outcome.kind = "throw"
       THEN /\ result' = outcome
            /\ rawOutput' = rawOutput
       ELSE /\ rawOutput' = RawOutputAfterParse(tool, outcome.output)
            /\ LET parsed == ParseOutputOf(tool, outcome.taskId, outcome.output)
               IN  result' = IF parsed.kind = "throw" THEN parsed
                             ELSE [kind |-> "return",
                                   content |-> ContentOf(tool, outcome.taskId, outcome.usage,
                                                         parsed.value)]
    /\ UNCHANGED <<maxAttempts, timeout, taskId, attempt, statusData, calls, outcome,
                   createData, reports, tool, args, job, peer>>

ToolNext ==
    \/ CallTool
    \/ Execute
    \/ \E resp \in ToolCreateResponses : CreateTaskResponse(resp)
    \/ \E sd \in ToolStatusResponses(tool) : StatusResponse(sd)
    \/ SleepElapsed
    \/ ExecuteResume

ToolSpec == ToolInit /\ [][ToolNext]_vars

----------------------------------------------------------------------------
(* The start of a tool invocation on its own: from the call to the request *)

RequestTools ==
    Tools \cup {"modify_image", "derive_image", "generate_image_controlnet",
                "generate_video_hunyuan", "generate_video_wan"}

RequestArgumentsOf(name) ==
    IF name = "generate_image" THEN FluxArguments(StepsValues) ELSE ArgumentsOf(name)

RequestInit ==
    /\ pc = "call"
    /\ tool \in RequestTools
    /\ args \in RequestArgumentsOf(tool)
    /\ maxAttempts = 0
    /\ timeout = 0
    /\ taskId = NoTask
    /\ attempt = 0
    /\ statusData = NoResponse
    /\ createData = NoResponse
    /\ calls = << >>
    /\ reports = {}
    /\ outcome = NoOutcome
    /\ rawOutput = JUndefined
    /\ job = NoJob
    /\ result = NoOutcome
    /\ peer = NoPeer

RequestNext ==
    \/ CallTool
    \/ Execute

RequestSpec == RequestInit /\ [][RequestNext]_vars

----------------------------------------------------------------------------
(* The task client with the settling of the progress reports *)

\* GET /task/{task_id} response bodies of a run with settling reports
AsyncStatusResponses ==
    {r \in StatusResponses :
        /\ r.message = JStr("provider message")
        /\ r.data.error = JUndefined
        /\ r.data.meta = JUndefined
        /\ r.data.output \in {JNull, [t |-> "object", id |-> "out_a"]}}

\* variant: the signal is handed to the sink once more when its report settles
ReportSettled_Resent(k) ==
    /\ k \in reports
    /\ reports' = reports \ {k}
    /\ calls' = Append(calls, ProgressOf(k, maxAttempts))
    /\ UNCHANGED <<pc, maxAttempts, timeout, taskId, attempt, statusData, outcome,
                   createData>>
    /\ UNCHANGED toolVars
    /\ UNCHANGED peer

\* the promise returned by the reportProgress call of attempt k settles; nothing
\* waits for it, so it settles at any time after the call, in any order
ReportSettled(k) ==
    /\ k \in reports
    /\ reports' = reports \ {k}
    /\ UNCHANGED <<pc, maxAttempts, timeout, taskId, attempt, statusData, calls, outcome,
                   createData>>
    /\ UNCHANGED toolVars
    /\ UNCHANGED peer

AsyncNext ==
    \/ HandleTask
    \/ \E resp \in ToolCreateResponses : CreateTaskResponse(resp)
    \/ \E sd \in AsyncStatusResponses : StatusResponse(sd)
    \/ SleepElapsed
    \/ \E k \in reports : ReportSettled(k)

AsyncSpec == Init /\ [][AsyncNext]_vars

----------------------------------------------------------------------------
(* The task client under the budgets of the configuration tables *)

\* every { maxAttempts, timeout } of the configuration tables
TableBudgets ==
    UNION {{[maxAttempts |-> table[k].maxAttempts, timeout |-> table[k].timeout] :
               k \in DOMAIN table} :
           table \in {IMAGE_TOOL_CONFIG, VIDEO_TOOL_CONFIG, FLUX_MODEL_CONFIG,
                      HUNYUAN_MODEL_CONFIG, SKYREELS_MODEL_CONFIG, WAN_MODEL_CONFIG,
                      MMAUDIO_MODEL_CONFIG, TTS_MODEL_CONFIG, MIDJOURNEY_MODEL_CONFIG,
                      KLING_MODEL_CONFIG, SUNO_MODEL_CONFIG, LUMA_MODEL_CONFIG,
                      TRELLIS_MODEL_CONFIG, HAILUO_MODEL_CONFIG}}

\* one provider response of each kind
BudgetCreateResponses ==
    {[code |-> c, message |-> JStr("provider message"), data |-> [task_id |-> "t1"]] :
        c \in {200, 500}}
BudgetStatusResponses ==
    {[code |-> 200, message |-> JUndefined,
      data |-> [status |-> s, output |-> [t |-> "object", id |-> "out_a"],
                error |-> JUndefined, meta |-> JUndefined]] :
        s \in {JStr("completed"), JStr("failed"), JStr("pending")}}

\* handleTask(log, reportProgress, requestBody, config) with a config of the tables
BudgetInit ==
    /\ pc = "start"
    /\ \E b \in TableBudgets : maxAttempts = b.maxAttempts /\ timeout = b.timeout
    /\ taskId = NoTask
    /\ attempt = 0
    /\ statusData = NoResponse
    /\ calls = << >>
    /\ outcome = NoOutcome
    /\ createData = NoResponse
    /\ reports = {}
    /\ tool = NoTool
    /\ args = NoArgs
    /\ rawOutput = JUndefined
    /\ job = NoJob
    /\ result = NoOutcome
    /\ peer = NoPeer

BudgetNext ==
    \/ HandleTask
    \/ \E resp \in BudgetCreateResponses : CreateTaskResponse(resp)
    \/ \E sd \in BudgetStatusResponses : StatusResponse(sd)
    \/ SleepElapsed

BudgetSpec == BudgetInit /\ [][BudgetNext]_vars

----------------------------------------------------------------------------
(* Two tool invocations in flight at once *)

\* what one invocation holds in the parameters and locals of execute,
\* handleTask, createTask and getTaskResult
FrameOf ==
    [pc |-> pc, maxAttempts |-> maxAttempts, timeout |-> timeout, taskId |-> taskId,
     attempt |-> attempt, statusData |-> statusData, calls |-> calls, outcome |-> outcome,
     createData |-> createData, reports |-> reports, tool |-> tool, args |-> args,
     job |-> job, rawOutput |-> rawOutput, result |-> result]

\* an invocation that has been called and has not run yet
FreshFrame(name, a) ==
    [pc |-> "call", maxAttempts |-> 0, timeout |-> 0, taskId |-> NoTask,
     attempt |-> 0, statusData |-> NoResponse, calls |-> << >>, outcome |-> NoOutcome,
     createData |-> NoResponse, reports |-> {}, tool |-> name, args |-> a,
     job |-> NoJob, rawOutput |-> JUndefined, result |-> NoOutcome]

PairTools == {"generate_video_hunyuan"}

PairArguments(name) ==
    {a \in ArgumentsOf(name) :
        /\ a.prompt = JStr("a cat")
        /\ a.referenceImage \in {JUndefined, JStr("https://host/file")}
        /\ a.model \in {JStr("hunyuan"), JStr("fastHunyuan")}}

PairCreateResponses == {r \in ToolCreateResponses : r.code = 200}

PairStatusResponses(name) ==
    {r \in ToolStatusResponses(name) :
        /\ r.code = 200
        /\ r.data.output \in {JNull, [t |-> "object", video_url |-> JStr("a")]}}

PairInit ==
    /\ pc = "call"
    /\ tool \in PairTools
    /\ args \in PairArguments(tool)
    /\ maxAttempts = 0
    /\ timeout = 0
    /\ taskId = NoTask
    /\ attempt = 0
    /\ statusData = NoResponse
    /\ createData = NoResponse
    /\ calls = << >>
    /\ reports = {}
    /\ outcome = NoOutcome
    /\ rawOutput = JUndefined
    /\ job = NoJob
    /\ result = NoOutcome
    /\ peer \in {FreshFrame(name, a) : name \in PairTools, a \in PairArguments("generate_video_hunyuan")}

\* variant: the attempt counter is one variable of the module, not a local of
\* the loop
Resume_SharedCounter(f) ==
    /\ pc' = f.pc
    /\ maxAttempts' = f.maxAttempts
    /\ timeout' = f.timeout
    /\ taskId' = f.taskId
    /\ attempt' = attempt
    /\ statusData' = f.statusData
    /\ calls' = f.calls
    /\ outcome' = f.outcome
    /\ createData' = f.createData
    /\ reports' = f.reports
    /\ tool' = f.tool
    /\ args' = f.args
    /\ job' = f.job
    /\ rawOutput' = f.rawOutput
    /\ result' = f.result

\* a suspended invocation is resumed with its own parameters and locals: all
\* of them are declared inside the functions (const, let, parameters)
Resume(f) ==
    /\ pc' = f.pc
    /\ maxAttempts' = f.maxAttempts
    /\ timeout' = f.timeout
    /\ taskId' = f.taskId
    /\ attempt' = f.attempt
    /\ statusData' = f.statusData
    /\ calls' = f.calls
    /\ outcome' = f.outcome
    /\ createData' = f.createData
    /\ reports' = f.reports
    /\ tool' = f.tool
    /\ args' = f.args
    /\ job' = f.job
    /\ rawOutput' = f.rawOutput
    /\ result' = f.result

\* the event loop turns from one invocation, suspended at an await, to the other
Switch ==
    /\ peer # NoPeer
    /\ peer' = FrameOf
    /\ Resume(peer)

PairNext ==
    \/ CallTool
    \/ Execute
    \/ \E resp \in PairCreateResponses : CreateTaskResponse(resp)
    \/ \E sd \in PairStatusResponses(tool) : StatusResponse(sd)
    \/ SleepElapsed
    \/ ExecuteResume
    \/ Switch

PairSpec == PairInit /\ [][PairNext]_vars

----------------------------------------------------------------------------
(* Reading the log *)

Idx(op) == {i \in 1..Len(calls) : calls[i].op = op}
Count(op) == Cardinality(Idx(op))
IsProgress(e) == e.op = "progress"
ProgressSignals == SelectSeq(calls, IsProgress)

\* a status response with the success code and a label that is neither
\* "completed" nor "failed"
NonTerminal(e) ==
    /\ e.op = "status"
    /\ e.code = 200
    /\ e.status \notin {JStr("completed"), JStr("failed")}

Polling == taskId # NoTask
Returned == pc = "done" /\ outcome.kind = "return"
Threw(text) == pc = "done" /\ outcome.kind = "throw" /\ outcome.text = text
TimedOut == Threw("Generation timed out after seconds")

----------------------------------------------------------------------------
(* C1 *)

\* C1 (as stated): one run of getTaskResult performs at most maxAttempts
\* status checks and at most maxAttempts - 1 sleeps, and every sleep lies
\* between two status checks: once the run is over, each sleep has a status
\* check before it and a status check after it.
C1_AtMostMaxAttemptsMinusOneSleeps ==
    /\ Count("get") <= maxAttempts
    /\ Count("sleep") <= maxAttempts - 1
    /\ pc = "done" =>
         \A i \in Idx("sleep") :
            /\ \E j \in Idx("get") : j < i
            /\ \E j \in Idx("get") : j > i

\* C1 (amended): one run of getTaskResult performs at most maxAttempts status
\* checks and at most maxAttempts sleeps; every sleep directly follows the
\* response of a status check; a run that ends on a provider response sleeps
\* at most maxAttempts - 1 times, each sleep between two status checks; a run
\* that times out sleeps exactly maxAttempts times, the last sleep after the
\* last status check.
C1_SleepAfterEachNonTerminalCheck ==
    /\ Count("get") <= maxAttempts
    /\ Count("sleep") <= maxAttempts
    /\ Count("sleep") <= Count("get")
    /\ \A i \in Idx("sleep") : i > 1 /\ NonTerminal(calls[i - 1])
    /\ (pc = "done" /\ ~TimedOut) =>
          /\ Count("sleep") <= maxAttempts - 1
          /\ \A i \in Idx("sleep") : \E j \in Idx("get") : j > i
    /\ TimedOut =>
          /\ Count("sleep") = maxAttempts
          /\ Count("get") = maxAttempts
          /\ calls[Len(calls)].op = "sleep"

\* a run of at least two attempts that timed out after sleeping maxAttempts times
C1_Witness ==
    /\ TimedOut
    /\ maxAttempts >= 2
    /\ Count("sleep") = maxAttempts

----------------------------------------------------------------------------
(* C2 *)

\* C2: a status response with code 200 and status "failed" is the last thing
\* the polling operation does: it ends with the "Generation failed" error for
\* this task, and no status check, sleep or progress signal follows it.
C2_FailedEndsPolling ==
    \A i \in Idx("status") :
        (calls[i].code = 200 /\ calls[i].status = JStr("failed")) =>
            /\ i = Len(calls)
            /\ Threw("Generation failed")
            /\ outcome.taskId = taskId
            /\ outcome.detail = ErrorMessageOf(statusData.data.error)

\* a "failed" response received at the second attempt or later
C2_Witness ==
    /\ Count("get") >= 2
    /\ calls[Len(calls)].op = "status"
    /\ calls[Len(calls)].code = 200
    /\ calls[Len(calls)].status = JStr("failed")
    /\ pc = "done"

----------------------------------------------------------------------------
(* C3 *)

AllNonTerminal == \A i \in Idx("status") : NonTerminal(calls[i])

\* C3: when all maxAttempts status responses carry code 200 and a label that
\* is neither "completed" nor "failed", the polling operation can only end
\* with the timeout error, which reports the configured timeout in seconds;
\* the timeout error is thrown only after exactly maxAttempts status checks
\* that were all of that kind; every other outcome of the polling operation
\* comes right after a response that ended it (a non-200 code, "completed"
\* or "failed").
C3_TimeoutAfterMaxAttempts ==
    /\ (Count("status") = maxAttempts /\ AllNonTerminal) =>
          \/ pc = "sleeping" /\ outcome = NoOutcome
          \/ TimedOut
    /\ (pc = "done" /\ Polling /\ AllNonTerminal) => TimedOut
    /\ TimedOut =>
          /\ outcome = UserError(taskId, "Generation timed out after seconds", JNum(timeout))
          /\ Count("get") = maxAttempts
          /\ Count("status") = maxAttempts
          /\ AllNonTerminal
    /\ (pc = "done" /\ Polling /\ ~TimedOut) =>
          /\ calls[Len(calls)].op = "status"
          /\ ~NonTerminal(calls[Len(calls)])

\* a run of at least two attempts that ended with the timeout error
C3_Witness ==
    /\ TimedOut
    /\ maxAttempts >= 2
    /\ Count("status") = maxAttempts
    /\ AllNonTerminal

----------------------------------------------------------------------------
(* C4 *)

\* the consume field of the last response is present (whatever its value)
ConsumePresent ==
    /\ statusData.data.meta.t = "object"
    /\ statusData.data.meta.usage.t = "object"
    /\ statusData.data.meta.usage.consume # JUndefined

\* C4: a returned result carries the provider's meta.usage.consume whenever
\* that field is present, and the literal "unknown" exactly when the field or
\* its enclosing meta / usage object is absent.
C4_UsageIsProviderField ==
    Returned =>
        /\ ConsumePresent => outcome.usage = statusData.data.meta.usage.consume
        /\ (outcome.usage = JStr("unknown")) <=> ~ConsumePresent

----------------------------------------------------------------------------
(* C5 *)

\* C5: the progress values handed to reportProgress are non-decreasing, and
\* when the polling operation returns a result the last progress signal
\* before the return has value 100 of total 100.
C5_ProgressMonotoneAndFinal100 ==
    /\ \A i \in 1..(Len(ProgressSignals) - 1) :
          RatLe(ProgressSignals[i].progress, ProgressSignals[i + 1].progress)
    /\ Returned =>
          /\ Len(ProgressSignals) >= 1
          /\ RatEq(ProgressSignals[Len(ProgressSignals)].progress, Rat(100, 1))
          /\ ProgressSignals[Len(ProgressSignals)].total = 100

----------------------------------------------------------------------------
(* C6 *)

\* number of status checks sent before position i of the log
ChecksBefore(i) == Cardinality({j \in Idx("get") : j < i})

\* C6: exactly one progress signal is emitted before each status check: every
\* status request is directly preceded by a progress signal, every progress
\* signal is directly followed by a status request, and the signal before
\* the check of attempt k (counted from 0) has value k / maxAttempts * 100
\* of total 100, so the first signal is 0 and every signal is >= 0 and < 100.
C6_OneProgressBeforeEachCheck ==
    /\ Count("progress") = Count("get")
    /\ \A i \in Idx("get") :
          /\ i > 1
          /\ calls[i - 1].op = "progress"
          /\ calls[i - 1].total = 100
          /\ RatEq(calls[i - 1].progress, Rat(ChecksBefore(i) * 100, maxAttempts))
          /\ RatLe(Rat(0, 1), calls[i - 1].progress)
          /\ RatLt(calls[i - 1].progress, Rat(100, 1))
    /\ \A i \in Idx("progress") :
          /\ i < Len(calls)
          /\ calls[i + 1].op = "get"
    /\ Len(ProgressSignals) >= 1 => RatEq(ProgressSignals[1].progress, Rat(0, 1))

\* three status checks were sent, each with its progress signal
C6_Witness ==
    /\ Count("get") = 3
    /\ Count("progress") = 3

----------------------------------------------------------------------------
(* C7 *)

StatusAt(k) == calls[CHOOSE i \in Idx("status") : Cardinality({j \in Idx("status") : j < i}) = k - 1]

\* C7: when the submission returned a task id, the first status response is
\* non-terminal and the second is "completed" with a non-null output and a
\* usage value u, the invocation returns {taskId, usage = u, output = the
\* provider's output} and exactly two progress signals were emitted, 0 and
\* then 100.
C7_EndToEnd ==
    ( /\ pc = "done"
      /\ Polling
      /\ Count("status") = 2
      /\ NonTerminal(StatusAt(1))
      /\ StatusAt(2).code = 200
      /\ StatusAt(2).status = JStr("completed")
      /\ statusData.data.output \notin {JNull, JUndefined}
      /\ ConsumePresent )
    =>
    ( /\ outcome = [kind |-> "return", taskId |-> taskId,
                    usage |-> statusData.data.meta.usage.consume,
                    output |-> statusData.data.output]
      /\ Len(ProgressSignals) = 2
      /\ RatEq(ProgressSignals[1].progress, Rat(0, 1))
      /\ RatEq(ProgressSignals[2].progress, Rat(100, 1)) )

----------------------------------------------------------------------------
(* C8 *)

\* C8: a status response whose code is not 200 is the last thing the polling
\* operation does, whatever status label it carries: the operation ends with
\* the "Status check failed" error carrying the task id and the provider's
\* message, and no sleep or further status check follows.
C8_NonSuccessCodeFails ==
    \A i \in Idx("status") :
        calls[i].code # 200 =>
            /\ i = Len(calls)
            /\ statusData.code = calls[i].code
            /\ pc = "done"
            /\ outcome = UserError(taskId, "Status check failed", statusData.message)

\* a non-200 response labelled "completed", received at the second attempt or later
C8_Witness ==
    /\ pc = "done"
    /\ Count("get") >= 2
    /\ calls[Len(calls)].op = "status"
    /\ calls[Len(calls)].code # 200
    /\ calls[Len(calls)].status = JStr("completed")

----------------------------------------------------------------------------
(* C9 *)

\* C9: a response with code 200 and status "completed" ends the polling
\* operation; with a null or absent output it ends with the "Task completed
\* but no output found" error, and a result is returned only when the output
\* is non-null, the result carrying that output.
C9_CompletedNeedsOutput ==
    /\ (statusData.code = 200 /\ statusData.data.status = JStr("completed")) =>
          /\ pc = "done"
          /\ statusData.data.output \in {JNull, JUndefined} =>
                outcome = UserError(taskId, "Task completed but no output found", JUndefined)
    /\ outcome.kind = "return" =>
          /\ statusData.code = 200
          /\ statusData.data.status = JStr("completed")
          /\ statusData.data.output \notin {JNull, JUndefined}
          /\ outcome.output = statusData.data.output

\* a "completed" response with a null output, received at the second attempt or later
C9_Witness ==
    /\ pc = "done"
    /\ Count("get") >= 2
    /\ statusData.code = 200
    /\ statusData.data.status = JStr("completed")
    /\ statusData.data.output = JNull

----------------------------------------------------------------------------
(* C10 *)

\* C10: a response with code 200 and any label other than "completed" and
\* "failed" (a missing label included) produces no outcome: it is directly
\* followed by exactly one sleep, during which the operation has no outcome;
\* after the sleep, if attempts remain, the next progress signal and status
\* check follow, and otherwise the operation has timed out.
C10_OtherLabelsAreNonTerminal ==
    \A i \in Idx("status") :
        NonTerminal(calls[i]) =>
            /\ i < Len(calls)
            /\ calls[i + 1].op = "sleep"
            /\ i + 1 = Len(calls) =>
                  \/ pc = "sleeping" /\ outcome = NoOutcome /\ attempt = ChecksBefore(i) - 1
                  \/ TimedOut /\ ChecksBefore(i) = maxAttempts
            /\ i + 1 < Len(calls) =>
                  /\ ChecksBefore(i) < maxAttempts
                  /\ i + 3 <= Len(calls)
                  /\ calls[i + 2].op = "progress"
                  /\ calls[i + 3].op = "get"

\* a response without a status label was followed by a sleep and the next check
C10_Witness ==
    \E i \in Idx("status") :
        /\ calls[i].code = 200
        /\ calls[i].status = JUndefined
        /\ i + 3 <= Len(calls)
        /\ calls[i + 3].op = "get"

----------------------------------------------------------------------------
(* C11 *)

PollingEvents == Idx("progress") \cup Idx("get") \cup Idx("status") \cup Idx("sleep")

\* C11: a task creation response whose code is not 200 is the last thing the
\* invocation does: it ends with the "Task creation failed" error carrying
\* the provider's message, and no status check, progress signal or sleep is
\* performed; every status check, progress signal and sleep comes after a
\* creation response with code 200.
C11_SubmissionFailureStopsInvocation ==
    /\ \A i \in Idx("created") :
          calls[i].code # 200 =>
             /\ i = Len(calls)
             /\ pc = "done"
             /\ createData.code = calls[i].code
             /\ outcome = UserError(NoTask, "Task creation failed", createData.message)
             /\ PollingEvents = {}
             /\ ~Polling
    /\ \A i \in PollingEvents :
          \E j \in Idx("created") : j < i /\ calls[j].code = 200

\* the provider rejected the submission with a message
C11_Witness ==
    /\ pc = "done"
    /\ calls[Len(calls)].op = "created"
    /\ calls[Len(calls)].code = 500
    /\ createData.message = JStr("provider message")

----------------------------------------------------------------------------
(* C12 *)

CoreErrors == {"Task creation failed", "Status check failed",
               "Task completed but no output found", "Generation failed",
               "Generation timed out after seconds"}

OneOutcome ==
    /\ Count("post") <= 1
    /\ (pc = "done") <=> (outcome # NoOutcome)
    /\ outcome # NoOutcome =>
          \/ outcome.kind = "return"
          \/ outcome.kind = "throw" /\ outcome.type = "UserError" /\ outcome.text \in CoreErrors

NothingAfterOutcome ==
    outcome # NoOutcome => (calls' = calls /\ outcome' = outcome /\ pc' = pc)

\* C12: an invocation sends at most one task creation request and ends in
\* exactly one outcome, a result or one of the errors of the task client;
\* once the outcome is produced there is no further request, progress signal
\* or sleep, and the outcome does not change.
C12_OneOutcomeNoRetry == [](OneOutcome) /\ [][NothingAfterOutcome]_vars

\* the invocation ended with an error after the submission was accepted
C12_Witness ==
    /\ pc = "done"
    /\ outcome.kind = "throw"
    /\ Count("post") = 1
    /\ Count("get") >= 1

----------------------------------------------------------------------------
(* C13 *)

EndedEarly == pc = "done" /\ Polling /\ Count("get") < maxAttempts

\* C13 (as stated): the wait ends before maxAttempts status checks were made
\* only if the last status check returned the label "completed" or "failed".
C13_EarlyExitOnlyOnTerminalStatus ==
    EndedEarly =>
        /\ calls[Len(calls)].op = "status"
        /\ calls[Len(calls)].status \in {JStr("completed"), JStr("failed")}

\* C13 (amended): the wait ends before maxAttempts status checks were made
\* only if the last status check returned the label "completed" or "failed"
\* or a provider code other than 200; there is no other early exit.
C13_EarlyExitOnlyOnEndingResponse ==
    EndedEarly =>
        /\ calls[Len(calls)].op = "status"
        /\ \/ calls[Len(calls)].code # 200
           \/ calls[Len(calls)].status \in {JStr("completed"), JStr("failed")}

\* the wait ended at the first of several attempts on a non-200 response
\* that carried a non-terminal label
C13_Witness ==
    /\ EndedEarly
    /\ Count("get") = 1
    /\ maxAttempts >= 2
    /\ calls[Len(calls)].op = "status"
    /\ calls[Len(calls)].code # 200
    /\ calls[Len(calls)].status = JStr("pending")

----------------------------------------------------------------------------
(* Claims about the result parsers, checked under ParseSpec *)

ParsedBy(name) == pc = "finished" /\ tool = name

ImageOutput(u, l, f) ==
    [t |-> "object", image_url |-> u, image_urls |-> l, temporary_image_urls |-> f]

\* the entries of a list field, nothing when the field is absent or null
EntriesOf(v) == IF v.t = "array" THEN v.items ELSE << >>
NonEmptyEntriesOf(v) == SelectSeq(EntriesOf(v), LAMBDA e : e # JStr(""))
SingularOf(o) ==
    IF Field(o, "image_url") \in {JUndefined, JStr("")} THEN << >> ELSE <<Field(o, "image_url")>>

\* C15 as stated: a successful image normalization returns image_url (if
\* non-empty), then every entry of image_urls, then every entry of
\* temporary_image_urls.
C15_ImageOrderAllEntries ==
    (ParsedBy("generate_image") /\ result.kind = "return")
        => result.value = SingularOf(rawOutput)
                          \o EntriesOf(Field(rawOutput, "image_urls"))
                          \o EntriesOf(Field(rawOutput, "temporary_image_urls"))

\* C15 amended: a successful image normalization returns image_url (if
\* non-empty), then the non-empty entries of image_urls, then the non-empty
\* entries of temporary_image_urls, in that order and without deduplication;
\* the four documented examples give [a], [a,b], [a,b] and [c].
C15_ImageOrderNonEmptyEntries ==
    ParsedBy("generate_image") =>
        /\ result.kind = "return"
            => result.value = SingularOf(rawOutput)
                              \o NonEmptyEntriesOf(Field(rawOutput, "image_urls"))
                              \o NonEmptyEntriesOf(Field(rawOutput, "temporary_image_urls"))
        /\ rawOutput = ImageOutput(JStr("a"), JUndefined, JUndefined)
            => result = Parsed(<<JStr("a")>>)
        /\ rawOutput = ImageOutput(JUndefined, JArr(<<JStr("a"), JStr("b")>>), JUndefined)
            => result = Parsed(<<JStr("a"), JStr("b")>>)
        /\ rawOutput = ImageOutput(JStr("a"), JArr(<<JStr("b")>>), JUndefined)
            => result = Parsed(<<JStr("a"), JStr("b")>>)
        /\ rawOutput = ImageOutput(JUndefined, JNull, JArr(<<JStr("c")>>))
            => result = Parsed(<<JStr("c")>>)
        /\ rawOutput = ImageOutput(JStr("a"), JArr(<<JStr("a"), JStr("a")>>), JUndefined)
            => result = Parsed(<<JStr("a"), JStr("a"), JStr("a")>>)

C15_Witness ==
    /\ ParsedBy("generate_image")
    /\ rawOutput = ImageOutput(JStr("a"), JArr(<<JStr(""), JStr("b")>>), JArr(<<JStr("c")>>))
    /\ result = Parsed(<<JStr("a"), JStr("b"), JStr("c")>>)

\* the image shape without its refinement
ImageShapeOk(o) ==
    /\ o.t = "object"
    /\ Field(o, "image_url").t \in {"undefined", "string"}
    /\ \A k \in {"image_urls", "temporary_image_urls"} :
          \/ Field(o, k) \in {JUndefined, JNull}
          \/ /\ Field(o, k).t = "array"
             /\ \A i \in 1..Len(Field(o, k).items) : Field(o, k).items[i].t = "string"

HasUrlField(o) ==
    \/ Field(o, "image_url") \notin {JUndefined, JStr("")}
    \/ EntriesOf(Field(o, "image_urls")) # << >>
    \/ EntriesOf(Field(o, "temporary_image_urls")) # << >>

\* C16 as stated: image normalization of the empty object {} fails with
\* "Task completed but no image URLs found".
C16_EmptyObjectIsNoResult ==
    (ParsedBy("generate_image") /\ rawOutput = EmptyObject)
        => result = NothingFound(taskId, "image URLs")

\* C16 amended: image normalization of the empty object {} fails with "Invalid
\* image output format", as does every output whose shape does not validate or
\* that has none of the URL fields; "no image URLs found" is the failure exactly
\* when the shape validates and every URL it holds is an empty string.
C16_EmptyObjectIsMalformed ==
    ParsedBy("generate_image") =>
        /\ rawOutput = EmptyObject => result = InvalidFormat(taskId, "image")
        /\ result = InvalidFormat(taskId, "image")
              <=> ~(ImageShapeOk(rawOutput) /\ HasUrlField(rawOutput))
        /\ result = NothingFound(taskId, "image URLs")
              <=> /\ ImageShapeOk(rawOutput) /\ HasUrlField(rawOutput)
                  /\ NonEmptyEntriesOf(Field(rawOutput, "image_urls")) = << >>
                  /\ NonEmptyEntriesOf(Field(rawOutput, "temporary_image_urls")) = << >>
                  /\ SingularOf(rawOutput) = << >>

C16_Witness ==
    /\ pc = "finished"
    /\ tool = "generate_image"
    /\ rawOutput = EmptyObject
    /\ result = InvalidFormat(taskId, "image")

\* C17: video normalization returns x for every output {video_url: x} with x a
\* non-empty string, and fails with "Invalid video output format" for {} and for
\* every output whose video_url is missing or not a string.
C17_VideoUrlOrMalformed ==
    ParsedBy("generate_video_hailuo") =>
        /\ (rawOutput.t = "object" /\ Field(rawOutput, "video_url").t = "string"
                /\ Field(rawOutput, "video_url") # JStr(""))
            => result = Parsed(Field(rawOutput, "video_url"))
        /\ (rawOutput = EmptyObject \/ rawOutput.t # "object"
                \/ Field(rawOutput, "video_url").t # "string")
            => result = InvalidFormat(taskId, "video")

C17_Witness ==
    /\ tool = "generate_video_hailuo"
    /\ pc = "finished"
    /\ rawOutput = [t |-> "object", video_url |-> JStr("a")]
    /\ result = Parsed(JStr("a"))

\* C18: no parser modifies the output it is given: across the call, whether it
\* returns or throws, the raw output is what it was before.
C18_RawOutputUnchanged ==
    [][(pc = "parse" /\ pc' = "finished") => (rawOutput' = rawOutput /\ result' # NoOutcome)]_vars

C18_Witness ==
    /\ pc = "finished"
    /\ tool = "generate_video_kling"
    /\ result.kind = "return"
    /\ Len(result.value) = 3
    /\ Len(Field(rawOutput, "works").items) = 2

----------------------------------------------------------------------------
(* Claims about one tool invocation, checked under ToolSpec *)

NamesTask(e) == e.type = "UserError" /\ e.taskId = taskId

\* C14: once the task id is obtained, every error of the invocation (status
\* check failure, completed without output, generation failure, timeout, every
\* failure of every parser) is a UserError whose message names that task id.
C14_ErrorsNameTheTask ==
    taskId # NoTask =>
        /\ outcome.kind = "throw" => NamesTask(outcome)
        /\ result.kind = "throw" => NamesTask(result)
        /\ (pc = "finished" /\ outcome.kind = "return" /\ result.kind = "throw")
              => result.text \in
                    {"Invalid " \o k \o " output format" :
                        k \in {"image", "audio", "video", "kling", "luma", "suno music", "trellis"}}
                    \cup {"Task completed but no image URLs found"}

C14_Witness ==
    /\ pc = "finished"
    /\ tool = "generate_music_suno"
    /\ taskId = "t2"
    /\ outcome.kind = "return"
    /\ result = InvalidFormat("t2", "suno music")

NoNetworkRequest == \A i \in 1..Len(calls) : calls[i].op \notin {"post", "get"}

OutOfRange(v) ==
    \/ v.t = "number" /\ (v.n < 128 \/ v.n > 1024)
    \/ v \in {JStr("2000"), JStr("64")}

RequiredArguments(name) ==
    CASE name = "tts_zero_shot" -> {"genText", "refAudio"}
      [] name = "generate_3d_model" -> {"image"}
      [] OTHER -> {"prompt"}

NonEmptyText(v) == v.t = "string" /\ v.s # ""

\* the cases of argument validation failure named by C19
RejectedArguments ==
    \/ tool = "generate_image"
          /\ (OutOfRange(Field(args, "width")) \/ OutOfRange(Field(args, "height")))
    \/ \E k \in RequiredArguments(tool) : Field(args, k) = JUndefined
    \/ /\ tool = "generate_music_suno"
       /\ Field(args, "makeInstrumental") = JBool(TRUE)
       /\ \E k \in {"title", "tags", "negativeTags"} : NonEmptyText(Field(args, k))
    \/ /\ tool = "generate_video_hailuo"
       /\ Field(args, "model") \in {JStr("i2v-01"), JStr("i2v-01-live"), JStr("s2v-01")}
       /\ Field(args, "imageUrl") = JUndefined

\* C19: an invocation whose arguments fail validation (a width or height out
\* of 128..1024 after coercion, a missing required argument, Suno
\* makeInstrumental with a title, tags or negativeTags, a Hailuo i2v or s2v
\* model without imageUrl) ends with an error and sends no network request.
C19_RejectedArgumentsSendNothing ==
    /\ RejectedArguments =>
          \/ pc \in {"call", "execute"} /\ NoNetworkRequest
          \/ pc = "finished" /\ result.kind = "throw" /\ NoNetworkRequest
    /\ (pc = "finished" /\ result.kind = "throw" /\ result.taskId = NoTask
            /\ result.text # "Task creation failed")
          => NoNetworkRequest /\ taskId = NoTask

C19_Witness ==
    /\ pc = "finished"
    /\ tool = "generate_music_suno"
    /\ args.makeInstrumental = JBool(TRUE)
    /\ args.title = JStr("a title")
    /\ args.prompt = JStr("a cat")
    /\ result.kind = "throw"
    /\ calls = << >>

----------------------------------------------------------------------------
(* Claims about the progress reports, checked under AsyncSpec *)

----------------------------------------------------------------------------
(* Claims about the task client, continued, checked under Spec *)

LastResponseIs(label) ==
    /\ pc = "done"
    /\ statusData.code = 200
    /\ statusData.data.status = JStr(label)

\* C25: a "failed" response without an error object or without an error
\* message ends the polling with the UserError "Generation failed: Unknown
\* error" naming the task; a "completed" response with an output and without
\* meta gives a result whose usage is "unknown".
C25_AbsentFieldsHaveDefaults ==
    /\ (LastResponseIs("failed")
            /\ (statusData.data.error = JUndefined
                \/ statusData.data.error = [t |-> "object", message |-> JUndefined]))
          => /\ taskId # NoTask
             /\ outcome = UserError(taskId, "Generation failed", JStr("Unknown error"))
    /\ (LastResponseIs("completed") /\ statusData.data.output.t = "object"
            /\ statusData.data.meta = JUndefined)
          => /\ outcome.kind = "return"
             /\ outcome.taskId = taskId
             /\ outcome.usage = JStr("unknown")
             /\ outcome.output = statusData.data.output

C25_Witness ==
    /\ LastResponseIs("failed")
    /\ statusData.data.error = JUndefined
    /\ outcome.detail = JStr("Unknown error")
    /\ attempt = 1

----------------------------------------------------------------------------
(* Claims about the request and the job configuration, checked under RequestSpec *)

Submitted == pc = "creating"

ConfigurationTables ==
    {IMAGE_TOOL_CONFIG, VIDEO_TOOL_CONFIG, FLUX_MODEL_CONFIG, HUNYUAN_MODEL_CONFIG,
     SKYREELS_MODEL_CONFIG, WAN_MODEL_CONFIG, MMAUDIO_MODEL_CONFIG, TTS_MODEL_CONFIG,
     MIDJOURNEY_MODEL_CONFIG, KLING_MODEL_CONFIG, SUNO_MODEL_CONFIG, LUMA_MODEL_CONFIG,
     TRELLIS_MODEL_CONFIG, HAILUO_MODEL_CONFIG}

\* C23: the job configuration a tool passes to handleTask is defined and has
\* maxAttempts > 0 and timeout > 0 for every accepted combination of arguments,
\* also after the Hunyuan and Wan tools have rewritten args.model; no execute
\* ends on a missing configuration.
C23_ConfigurationDefinedAndPositive ==
    /\ Submitted =>
          /\ job.config # JUndefined
          /\ job.config = ConfigOf(tool, args)
          /\ job.config.maxAttempts > 0
          /\ job.config.timeout > 0
    /\ result.kind = "throw" => result.type # "TypeError"
    /\ \A table \in ConfigurationTables : \A key \in DOMAIN table :
          table[key].maxAttempts > 0 /\ table[key].timeout > 0

C23_Witness ==
    /\ Submitted
    /\ tool = "generate_video_wan"
    /\ args.referenceImage = JStr("https://host/file")
    /\ args.model = JStr("wan14b")
    /\ job.config = [maxAttempts |-> 60, timeout |-> 900]

Budget(config) == <<config.maxAttempts, config.timeout>>

\* what C26 expects of a requested model without a reference image
ExpectedOf(model) ==
    CASE model = JStr("hunyuan") -> <<"txt2video", 60, 900>>
      [] model = JStr("fastHunyuan") -> <<"fast-txt2video", 60, 600>>
      [] model = JStr("hunyuanConcat") -> <<"img2video-concat", 60, 900>>
      [] model = JStr("hunyuanReplace") -> <<"img2video-replace", 60, 900>>
      [] model = JStr("wan1_3b") -> <<"txt2video-1.3b", 30, 300>>
      [] model = JStr("wan14b") -> <<"txt2video-14b", 60, 900>>

SubmittedJob(j) == <<j.requestBody.task_type, j.config.maxAttempts, j.config.timeout>>

\* C26: with a reference image the Hunyuan tool asked for hunyuan or
\* fastHunyuan submits img2video-concat and polls with the hunyuanConcat budget,
\* and the Wan tool submits img2video-14b and polls with the wan14b budget
\* whichever model was asked for; without a reference image the task type and
\* the budget are those of the model asked for.
C26_ReferenceImageSelectsImageToVideo ==
    [][(pc = "execute" /\ pc' = "creating") =>
        /\ (tool = "generate_video_hunyuan" /\ args.referenceImage # JUndefined
                /\ args.model \in {JStr("hunyuan"), JStr("fastHunyuan")})
              => SubmittedJob(job') = <<"img2video-concat", 60, 900>>
        /\ (tool = "generate_video_wan" /\ args.referenceImage # JUndefined)
              => SubmittedJob(job') = <<"img2video-14b", 60, 900>>
        /\ (tool \in {"generate_video_hunyuan", "generate_video_wan"}
                /\ args.referenceImage = JUndefined)
              => SubmittedJob(job') = ExpectedOf(args.model)]_vars

C26_Witness ==
    /\ Submitted
    /\ tool = "generate_video_hunyuan"
    /\ args.referenceImage = JStr("https://host/file")
    /\ args.model = JStr("hunyuanConcat")
    /\ SubmittedJob(job) = <<"img2video-concat", 60, 900>>

FluxTools == {"generate_image", "modify_image", "derive_image", "generate_image_controlnet"}

\* the step limits C27 states for the model a Flux tool selects
StepLimitsOf(name, a) ==
    IF name = "generate_image" /\ a.model = JStr("schnell")
    THEN [default |-> 4, max |-> 10]
    ELSE [default |-> 25, max |-> 40]

\* C27: the steps a Flux tool places in the request never exceed the maxSteps
\* of the selected model, and are its defaultSteps when steps is omitted or 0.
C27_StepsWithinModelLimits ==
    (Submitted /\ tool \in FluxTools) =>
        /\ job.requestBody.input.steps.t = "number"
        /\ job.requestBody.input.steps.n <= StepLimitsOf(tool, args).max
        /\ args.steps = JNum(0)
              => job.requestBody.input.steps = JNum(StepLimitsOf(tool, args).default)
        /\ (args.steps.t = "number" /\ args.steps.n > 0
                /\ args.steps.n <= StepLimitsOf(tool, args).max)
              => job.requestBody.input.steps = args.steps

C27_Witness ==
    /\ Submitted
    /\ tool = "generate_image"
    /\ args.model = JStr("schnell")
    /\ args.steps = JNum(40)
    /\ job.requestBody.input.steps = JNum(10)

----------------------------------------------------------------------------
(* Claims about the result parsers, continued, checked under ParseSpec *)

\* image_url (if non-empty), image_urls (if an array) and temporary_image_urls
\* (if an array), one after the other, without the empty strings
PlainConcatenation(o) ==
    SelectSeq(SingularOf(o) \o EntriesOf(Field(o, "image_urls"))
                            \o EntriesOf(Field(o, "temporary_image_urls")),
              LAMBDA e : e # JStr(""))

\* C29: the Midjourney special case never changes the result of the image
\* parser: for every output the image schema accepts, the list returned is the
\* plain concatenation of the three fields without the empty strings, so a
\* non-null image_urls and temporary_image_urls both appear in it.
C29_MidjourneyCaseIsRedundant ==
    (ParsedBy("generate_image") /\ ImageShapeOk(rawOutput) /\ HasUrlField(rawOutput)) =>
        /\ PlainConcatenation(rawOutput) # << >> => result = Parsed(PlainConcatenation(rawOutput))
        /\ PlainConcatenation(rawOutput) = << >> => result = NothingFound(taskId, "image URLs")
        /\ (result.kind = "return" /\ Field(rawOutput, "image_urls").t = "array"
                /\ Field(rawOutput, "temporary_image_urls").t = "array")
              => Len(result.value) >=
                    Len(NonEmptyEntriesOf(Field(rawOutput, "image_urls")))
                    + Len(NonEmptyEntriesOf(Field(rawOutput, "temporary_image_urls")))

C29_Witness ==
    /\ ParsedBy("generate_image")
    /\ rawOutput = ImageOutput(JUndefined, JArr(<<JStr("b")>>), JArr(<<JStr("c")>>))
    /\ result = Parsed(<<JStr("b"), JStr("c")>>)

KindOf(name) ==
    CASE name = "generate_video_hailuo" -> "video"
      [] name = "tts_zero_shot" -> "audio"
      [] name = "generate_3d_model" -> "trellis"
      [] name = "generate_video_kling" -> "kling"

NonEmptyString(v) == v.t = "string" /\ v.s # ""

\* C30: the video, audio, Trellis and Kling parsers never fail with "completed
\* but no ... found": each of their failures is "Invalid ... output format";
\* a success is a non-empty string for video and audio, three non-empty
\* strings for Trellis, and a list of 1 + number of works for Kling.
C30_NoResultUnreachable ==
    (pc = "finished" /\ tool \in {"generate_video_hailuo", "tts_zero_shot",
                                  "generate_3d_model", "generate_video_kling"}) =>
        /\ result.kind = "throw" => result = InvalidFormat(taskId, KindOf(tool))
        /\ (result.kind = "return" /\ tool \in {"generate_video_hailuo", "tts_zero_shot"})
              => NonEmptyString(result.value)
        /\ (result.kind = "return" /\ tool = "generate_3d_model")
              => Len(result.value) = 3 /\ \A i \in 1..3 : NonEmptyString(result.value[i])
        /\ (result.kind = "return" /\ tool = "generate_video_kling")
              => Len(result.value) = 1 + Len(rawOutput.works.items)

C30_Witness ==
    /\ pc = "finished"
    /\ tool = "generate_3d_model"
    /\ result = Parsed(<<JStr("a"), JStr("a"), JStr("m")>>)

\* the clips of a Suno output as the provider's JSON delivers them
SunoClipCount(o) ==
    IF Field(o, "clips").t = "object"
    THEN Cardinality(DOMAIN Field(o, "clips") \ {"t"})
    ELSE 0

WellFormedClips(o) ==
    /\ SunoClipCount(o) >= 1
    /\ \A k \in DOMAIN o.clips \ {"t"} :
          /\ IsString(Field(o.clips[k], "audio_url"))
          /\ IsString(Field(o.clips[k], "image_url"))

\* C28: a completed Suno task whose output is {clips: {id: {audio_url,
\* image_url}, ...}} with at least one clip is parsed successfully into one
\* entry per clip, and "completed but no audio/image URLs found" is raised
\* only when clips is empty.
C28_SunoClipsAreReturned ==
    ParsedBy("generate_music_suno") =>
        /\ WellFormedClips(rawOutput) =>
              result.kind = "return" /\ Len(result.value) = SunoClipCount(rawOutput)
        /\ result = NothingFound(taskId, "audio/image URLs") =>
              Field(rawOutput, "clips").t = "object" /\ SunoClipCount(rawOutput) = 0

----------------------------------------------------------------------------
(* Claims about the polling budget, checked under BudgetSpec *)

IsSleep(e) == e.op = "sleep"
Sleeps == SelectSeq(calls, IsSleep)

\* the sum of the sleeps of a log, in 1/n milliseconds
RECURSIVE SleptTimes(_, _)
SleptTimes(log, n) ==
    IF log = << >> THEN 0
    ELSE (Head(log).ms.num * n) \div Head(log).ms.den + SleptTimes(Tail(log), n)

\* C22: with every budget of the configuration tables, each sleep of a
\* polling run lasts timeout * 1000 / maxAttempts milliseconds, and the sleeps
\* of one run add up to at most timeout * 1000 milliseconds.
C22_SleepsWithinBudget ==
    /\ \A i \in 1..Len(Sleeps) : RatEq(Sleeps[i].ms, Rat(timeout * 1000, maxAttempts))
    /\ Len(Sleeps) <= maxAttempts
    /\ SleptTimes(Sleeps, maxAttempts) <= timeout * 1000 * maxAttempts

C22_Witness ==
    /\ TimedOut
    /\ maxAttempts = HUNYUAN_MODEL_CONFIG.hunyuan.maxAttempts
    /\ timeout = HUNYUAN_MODEL_CONFIG.hunyuan.timeout
    /\ Len(Sleeps) = maxAttempts
    /\ SleptTimes(Sleeps, maxAttempts) = timeout * 1000 * maxAttempts

----------------------------------------------------------------------------
(* Termination of a tool invocation, checked under FairToolSpec *)

\* every response awaited arrives and every timer armed fires: a step of the
\* invocation that can be taken is taken
FairToolSpec == ToolSpec /\ WF_vars(ToolNext)

\* C24: provided every HTTP call returns and every sleep elapses, a tool
\* invocation eventually ends with a result or an error: the polling loop
\* does not run forever.
C24_InvocationTerminates == <>(pc = "finished")

C24_Witness ==
    /\ pc = "finished"
    /\ attempt = maxAttempts
    /\ Count("sleep") = maxAttempts
    /\ result = TimeoutError(taskId, timeout)

----------------------------------------------------------------------------
(* Claims about two invocations in flight, checked under PairSpec *)

SleepsOf(f) == Len(SelectSeq(f.calls, IsSleep))
ProgressSignalsOf(f) == SelectSeq(f.calls, IsProgress)

\* what holds of an invocation that runs alone: its counter is the number of
\* its own sleeps, its requests and its outcome carry its own task id, its
\* progress signals are those of its own attempts and budget, its job is that
\* of its own arguments, its result is made from its own last response
AsAlone(f) ==
    /\ f.pc = "checking" => f.attempt = SleepsOf(f)
    /\ f.pc = "sleeping" => f.attempt + 1 = SleepsOf(f)
    /\ \A i \in 1..Len(f.calls) : f.calls[i].op = "get" => f.calls[i].taskId = f.taskId
    /\ ProgressSignalsOf(f) =
          [i \in 1..Len(ProgressSignalsOf(f)) |-> ProgressOf(i - 1, f.maxAttempts)]
    /\ f.job # NoJob =>
          /\ f.job.config = ConfigOf(f.tool, f.args)
          /\ f.maxAttempts = AttemptsOf(f.job.config)
          /\ f.timeout = f.job.config.timeout
    /\ f.outcome.kind # "none" => f.outcome.taskId = f.taskId
    /\ f.outcome.kind = "return" => f.outcome = TaskResult(f.taskId, f.statusData)

\* C21: two invocations in flight at once are independent: a step of one
\* leaves everything the other holds as it was, a turn of the event loop
\* hands each its own state back, and the attempt counter, task id, progress
\* signals and outcome of each are those of an invocation that runs alone.
C21_InvocationsAreIndependent ==
    [][ /\ \/ peer' = peer
           \/ peer' = FrameOf /\ FrameOf' = peer
        /\ AsAlone(FrameOf')
        /\ AsAlone(peer') ]_vars

C21_Witness ==
    /\ pc = "checking"
    /\ attempt = 1
    /\ args.model = JStr("hunyuan")
    /\ peer.pc = "sleeping"
    /\ peer.attempt = 0
    /\ peer.args.model = JStr("hunyuanConcat")
    /\ peer.taskId # taskId

====
